---- MODULE Spec2Model ----
(***************************************************************************)
(* Verification model of the RSV cost-effectiveness engine:                *)
(*   util/core.py   run_scenario and its subgroup cost / DALY formulas     *)
(*   psa.py         the Monte Carlo driver (module-level RNGs, main loop)  *)
(*   univariate.py  the one-way sensitivity driver (run_univariate, main)  *)
(*   ceac.py        the acceptability curve of the PSA sample sets         *)
(*   main.py        the base case under both perspectives                  *)
(*   stat_tools/    the fitting routines and the samplers                  *)
(*   util/core.py   calculate_discounted_yll, as data_enricher.py calls it *)
(*                                                                         *)
(* Numbers.  The program computes in IEEE doubles.  The model computes in  *)
(* exact rational arithmetic: a number is a pair <<n, d>> with d > 0 and   *)
(* gcd(n, d) = 1, so that equality of numbers is equality of pairs.        *)
(* Rounding of the floating-point operations is not modelled.              *)
(***************************************************************************)
EXTENDS Integers, Sequences, FiniteSets, TLC

VARIABLES
    pc,        \* position of the caller of run_scenario / of the process
    args,      \* the argument objects the caller holds (passed by reference)
    result,    \* what the last run_scenario call returned or raised
    calls,     \* log of the run_scenario calls made (in psa.py: of the
               \* current iteration), each with its arguments and outcome
    DEFAULT_RNG,       \* psa.py module level: state of random.Random(42)
    NP_RNG,            \* psa.py module level: state of default_rng(42)
    data,              \* the loaded and enriched input tables
    fitted,            \* main(): the fitted distribution parameters
    rand,              \* main(): the draws of the current iteration
    it,                \* main(): number of completed loop iterations
    societal_results,  \* main(): list of societal pairs
    public_results,    \* main(): list of public-payer pairs
    csv,               \* the two result files on disk
    runs,              \* log of the completed PSA runs and what they wrote
    proc,              \* number of the running interpreter process
    study,             \* univariate.py main(): the run_univariate calls to come
    univariate_results,\* univariate.py main(): list of the rows returned
    univariate_csv,    \* results/univariate/univariate.csv
    df,                \* ceac.py: the PSA sample set read from a CSV file
    ceac_data,         \* ceac.py: the CEAC table written
    remaining,         \* sample_truncated_normal: values still to accept
    out_parts          \* sample_truncated_normal: the accepted parts

scenario_vars == <<pc, args, result, calls>>

psa_vars == <<DEFAULT_RNG, NP_RNG, data, fitted, rand, it, societal_results,
              public_results, csv, runs, proc>>

drv_vars == <<study, univariate_results, univariate_csv, df, ceac_data>>

smp_vars == <<remaining, out_parts>>

vars == <<pc, args, result, calls, DEFAULT_RNG, NP_RNG, data, fitted, rand, it,
          societal_results, public_results, csv, runs, proc,
          study, univariate_results, univariate_csv, df, ceac_data,
          remaining, out_parts>>

----------------------------------------------------------------------------
(* Exact rational arithmetic standing for Python float arithmetic.         *)

Abs(x) == IF x < 0 THEN -x ELSE x

RECURSIVE GCD(_, _)
GCD(a, b) == IF b = 0 THEN a ELSE GCD(b, a % b)

\* the number n/d (d # 0) in lowest terms with a positive denominator
Q(n, d) ==
    LET g == GCD(Abs(n), Abs(d))
        s == IF d < 0 THEN -1 ELSE 1
    IN  <<(s * n) \div g, (s * d) \div g>>

I(n) == <<n, 1>>

\* x + y, over the least common denominator
RAdd(x, y) ==
    LET g == GCD(x[2], y[2])
    IN  Q(x[1] * (y[2] \div g) + y[1] * (x[2] \div g), (x[2] \div g) * y[2])

RNeg(x) == <<-x[1], x[2]>>

RSub(x, y) == RAdd(x, RNeg(y))

\* x * y, cancelling crosswise before multiplying
RMul(x, y) ==
    LET a == Q(x[1], y[2])
        b == Q(y[1], x[2])
    IN  <<a[1] * b[1], a[2] * b[2]>>

\* x / y for y # 0
RDiv(x, y) == RMul(x, Q(y[2], y[1]))

RLe(x, y) == x[1] * y[2] <= y[1] * x[2]

RLt(x, y) == x[1] * y[2] < y[1] * x[2]

Zero == I(0)

One == I(1)

----------------------------------------------------------------------------
(* util/core.py                                                            *)

compute_cases_eff_not_complemented(population, proportion, reduction_eff) ==
    RMul(RMul(population, proportion), reduction_eff)

compute_cases_with_eff(population, proportion, reduction_eff) ==
    RMul(RMul(population, proportion), RSub(One, reduction_eff))

compute_death_cases(cases, lethality) == RMul(cases, lethality)

compute_cure_cases(cases, deaths) == RSub(cases, deaths)

calculate_subgroup_cost(population, hosp_proportion, outpatient_proportion, hosp_reduction_eff, malrti_reduction_eff, inpatient_cost, inpatient_pcr_cost, inpatient_transport_cost, inpatient_salary_loss, outpatient_ec_cost, outpatient_pc_cost, outpatient_transport_cost, outpatient_salary_loss) ==
    LET hosp_cases ==
            compute_cases_with_eff(population, hosp_proportion, hosp_reduction_eff)
        outpatient_cases ==
            compute_cases_with_eff(population, outpatient_proportion,
                                   malrti_reduction_eff)
        inpatient_base ==
            RAdd(RAdd(RAdd(RAdd(inpatient_cost, inpatient_pcr_cost),
                           inpatient_transport_cost),
                      inpatient_salary_loss),
                 outpatient_ec_cost)
        outpatient_base ==
            RAdd(RAdd(outpatient_pc_cost, outpatient_transport_cost),
                 outpatient_salary_loss)
    IN  RAdd(RMul(hosp_cases, inpatient_base),
             RMul(outpatient_cases, outpatient_base))

\* [raised |-> TRUE] when the function raises ValueError, else its value
calculate_subgroup_dalys(population, hosp_proportion, outpatient_proportion, hosp_reduction_eff, malrti_reduction_eff, severe_case_dw, moderate_case_dw, severe_illness_duration_days, moderate_illness_duration_days, lethality, days_in_year, discounted_yll) ==
    IF RLe(days_in_year, Zero)
    THEN [raised |-> TRUE, value |-> Zero]
    ELSE
    LET hosp_cases ==
            compute_cases_with_eff(population, hosp_proportion, hosp_reduction_eff)
        outpatient_cases ==
            compute_cases_with_eff(population, outpatient_proportion,
                                   malrti_reduction_eff)
        hosp_death_cases == compute_death_cases(hosp_cases, lethality)
        hosp_cure_cases == compute_cure_cases(hosp_cases, hosp_death_cases)
        hosp_duration_years == RDiv(severe_illness_duration_days, days_in_year)
        outpatient_duration_years ==
            RDiv(moderate_illness_duration_days, days_in_year)
        hosp_cure_daly ==
            RMul(RMul(hosp_cure_cases, severe_case_dw), hosp_duration_years)
        hosp_death_daly ==
            RMul(RMul(hosp_death_cases, severe_case_dw), hosp_duration_years)
        yll_daly == RMul(hosp_death_cases, discounted_yll)
        hosp_daly == RAdd(RAdd(hosp_cure_daly, hosp_death_daly), yll_daly)
        outpatient_daly ==
            RMul(RMul(outpatient_cases, moderate_case_dw),
                 outpatient_duration_years)
    IN  [raised |-> FALSE, value |-> RAdd(hosp_daly, outpatient_daly)]

\* outcome of a call: a returned dict, or a raised ValueError
Return(cost, dalys) ==
    [status |-> "ok", error |-> "none", cost |-> cost, dalys |-> dalys]

Raise(error) ==
    [status |-> "ValueError", error |-> error, cost |-> Zero, dalys |-> Zero]

\* the 14 subgroup-indexed sequences, in the order of run_scenario's list
seqs(a) ==
    << a.population_proportions, a.hosp_proportions, a.outpatient_proportions,
       a.lethality_proportions,
       a.inpatient_costs, a.inpatient_pcr_costs, a.outpatient_ec_costs,
       a.outpatient_pc_costs,
       a.inpatient_transport_costs, a.inpatient_caregiver_salary_losses,
       a.outpatient_transport_costs, a.outpatient_caregiver_salary_losses,
       a.hosp_reduction_effs, a.malrti_reduction_effs >>

lengths(a) == [k \in 1..14 |-> Len(seqs(a)[k])]

\* Python's sum(): 0 + s[0] + s[1] + ... from left to right
RECURSIVE sum(_)
sum(s) ==
    IF s = <<>> THEN Zero
    ELSE RAdd(sum(SubSeq(s, 1, Len(s) - 1)), s[Len(s)])

treated_pop(group_pop, coverage) == RMul(group_pop, coverage)

untreated_pop_quadratic(group_pop, coverage) ==
    RMul(RMul(group_pop, coverage), RSub(One, coverage))

untreated_pop(group_pop, coverage) == RMul(group_pop, RSub(One, coverage))

total_intervention_cost(a) ==
    RMul(RMul(a.cohort, a.coverage), a.intervention_dose_cost)

cost_treated(a, i) ==
    calculate_subgroup_cost(
        treated_pop(RMul(a.cohort, a.population_proportions[i]), a.coverage),
        a.hosp_proportions[i], a.outpatient_proportions[i],
        a.hosp_reduction_effs[i], a.malrti_reduction_effs[i],
        a.inpatient_costs[i], a.inpatient_pcr_costs[i],
        a.inpatient_transport_costs[i], a.inpatient_caregiver_salary_losses[i],
        a.outpatient_ec_costs[i], a.outpatient_pc_costs[i],
        a.outpatient_transport_costs[i], a.outpatient_caregiver_salary_losses[i])

cost_untreated(a, i) ==
    calculate_subgroup_cost(
        untreated_pop(RMul(a.cohort, a.population_proportions[i]), a.coverage),
        a.hosp_proportions[i], a.outpatient_proportions[i],
        Zero, Zero,
        a.inpatient_costs[i], a.inpatient_pcr_costs[i],
        a.inpatient_transport_costs[i], a.inpatient_caregiver_salary_losses[i],
        a.outpatient_ec_costs[i], a.outpatient_pc_costs[i],
        a.outpatient_transport_costs[i], a.outpatient_caregiver_salary_losses[i])

dalys_treated(a, i) ==
    calculate_subgroup_dalys(
        treated_pop(RMul(a.cohort, a.population_proportions[i]), a.coverage),
        a.hosp_proportions[i], a.outpatient_proportions[i],
        a.hosp_reduction_effs[i], a.malrti_reduction_effs[i],
        a.severe_case_dw, a.moderate_case_dw,
        a.severe_illness_duration_days, a.moderate_illness_duration_days,
        a.lethality_proportions[i], a.days_in_year, a.discounted_yll)

dalys_untreated(a, i) ==
    calculate_subgroup_dalys(
        untreated_pop(RMul(a.cohort, a.population_proportions[i]), a.coverage),
        a.hosp_proportions[i], a.outpatient_proportions[i],
        Zero, Zero,
        a.severe_case_dw, a.moderate_case_dw,
        a.severe_illness_duration_days, a.moderate_illness_duration_days,
        a.lethality_proportions[i], a.days_in_year, a.discounted_yll)

\* the body of "for i in range(n)" from subgroup i on (i is 1-based here),
\* then the return statement; a raise inside the loop ends the call
RECURSIVE subgroup_loop(_, _, _, _, _)
subgroup_loop(a, n, i, total_disease_cost, total_dalys) ==
    IF i > n
    THEN Return(RAdd(total_disease_cost, total_intervention_cost(a)), total_dalys)
    ELSE
    LET dt == dalys_treated(a, i)
        du == dalys_untreated(a, i)
    IN  IF dt.raised \/ du.raised
        THEN Raise("days_in_year")
        ELSE subgroup_loop(a, n, i + 1,
                 RAdd(total_disease_cost,
                      RAdd(cost_treated(a, i), cost_untreated(a, i))),
                 RAdd(total_dalys, RAdd(dt.value, du.value)))

proportions_strictly_in_tolerance(total_prop) ==
    RLt(Q(999, 1000), total_prop) /\ RLt(total_prop, Q(1001, 1000))

proportions_in_tolerance(total_prop) ==
    RLe(Q(999, 1000), total_prop) /\ RLe(total_prop, Q(1001, 1000))

\* run_scenario without its early return for n = 0
run_scenario_no_empty_case(a) ==
    IF Cardinality({lengths(a)[k] : k \in 1..14}) # 1
    THEN Raise("lengths")
    ELSE IF ~proportions_in_tolerance(sum(a.population_proportions))
         THEN Raise("proportions")
         ELSE subgroup_loop(a, lengths(a)[1], 1, Zero, Zero)

\* run_scenario cutting the sequences to the shortest one instead of raising
run_scenario_shortest(a) ==
    LET n == CHOOSE m \in {lengths(a)[k] : k \in 1..14} :
                 \A k \in 1..14 : m <= lengths(a)[k]
    IN  IF n = 0
        THEN Return(total_intervention_cost(a), Zero)
        ELSE IF ~proportions_in_tolerance(sum(a.population_proportions))
             THEN Raise("proportions")
             ELSE subgroup_loop(a, n, 1, Zero, Zero)

run_scenario(a) ==
    IF Cardinality({lengths(a)[k] : k \in 1..14}) # 1
    THEN Raise("lengths")
    ELSE
    LET n == lengths(a)[1]
    IN  IF n = 0
        THEN Return(total_intervention_cost(a), Zero)
        ELSE IF ~proportions_in_tolerance(sum(a.population_proportions))
             THEN Raise("proportions")
             ELSE subgroup_loop(a, n, 1, Zero, Zero)

\* run_scenario rescaling population_proportions in place to sum to 1
args_after_normalising(a) ==
    [a EXCEPT !.population_proportions =
        [i \in DOMAIN @ |-> RDiv(@[i], sum(a.population_proportions))]]

\* run_scenario assigns to none of its parameters and to no element of them:
\* the argument objects after the call are the argument objects before it
args_after_call(a) == a

\* the log entry of one call
CallRecord(a) ==
    [args |-> a, after |-> args_after_call(a), result |-> run_scenario(a)]

----------------------------------------------------------------------------
(* Inputs of run_scenario.                                                 *)

MaxSub == 2         \* largest number of subgroups

RECURSIVE Pow2(_)
Pow2(k) == IF k = 0 THEN 1 ELSE 2 * Pow2(k - 1)

\* population proportions of n subgroups summing to 1 + delta:
\* 1/2, 1/4, ..., and the remainder plus delta in the last place
population_seq(n, delta) ==
    [i \in 1..n |-> IF i < n THEN Q(1, Pow2(i))
                    ELSE RAdd(Q(1, Pow2(n - 1)), delta)]

\* cost of subgroup i: 10 in subgroup 1, then growing by step per subgroup
unit_cost(i, step) == I(10 + step * (i - 1))

\* the per-subgroup effectiveness: none (e = 0) or i/4 and i/5 (e = 1)
eff_seq(n, e, den) == [i \in 1..n |-> IF e = 0 THEN Zero ELSE Q(i, den)]

\* the scalar arguments: those of the end-to-end example (s = 0), or others
Scalars(s) ==
    IF s = 0
    THEN [cohort |-> I(1000), intervention_dose_cost |-> I(50),
          severe_case_dw |-> Q(1, 5), moderate_case_dw |-> Q(1, 10),
          severe_illness_duration_days |-> I(7),
          moderate_illness_duration_days |-> I(7),
          discounted_yll |-> I(5)]
    ELSE [cohort |-> I(500), intervention_dose_cost |-> I(25),
          severe_case_dw |-> Q(1, 4), moderate_case_dw |-> Q(1, 20),
          severe_illness_duration_days |-> I(10),
          moderate_illness_duration_days |-> I(5),
          discounted_yll |-> Q(7, 2)]

\* an argument list whose sequences have length n, except that sequence
\* number odd (1..14, in the order of seqs; 0 for none) has length m
MkArgs(n, delta, coverage, days_in_year, e, s, odd, m) ==
    LET len(k) == IF k = odd THEN m ELSE n
        sc == Scalars(s)
    IN  [cohort |-> sc.cohort,
         coverage |-> coverage,
         intervention_dose_cost |-> sc.intervention_dose_cost,
         severe_case_dw |-> sc.severe_case_dw,
         moderate_case_dw |-> sc.moderate_case_dw,
         severe_illness_duration_days |-> sc.severe_illness_duration_days,
         moderate_illness_duration_days |-> sc.moderate_illness_duration_days,
         days_in_year |-> days_in_year,
         discounted_yll |-> sc.discounted_yll,
         population_proportions |-> population_seq(len(1), delta),
         hosp_proportions |-> [i \in 1..len(2) |-> Q(i, 50)],
         outpatient_proportions |-> [i \in 1..len(3) |-> Q(i, 10)],
         lethality_proportions |-> [i \in 1..len(4) |-> Q(i, 100)],
         inpatient_costs |-> [i \in 1..len(5) |-> unit_cost(i, 90)],
         inpatient_pcr_costs |-> [i \in 1..len(6) |-> unit_cost(i, 5)],
         outpatient_ec_costs |-> [i \in 1..len(7) |-> unit_cost(i, 20)],
         outpatient_pc_costs |-> [i \in 1..len(8) |-> unit_cost(i, 10)],
         inpatient_transport_costs |-> [i \in 1..len(9) |-> unit_cost(i, 2)],
         inpatient_caregiver_salary_losses |->
             [i \in 1..len(10) |-> unit_cost(i, 30)],
         outpatient_transport_costs |-> [i \in 1..len(11) |-> unit_cost(i, 1)],
         outpatient_caregiver_salary_losses |->
             [i \in 1..len(12) |-> unit_cost(i, 15)],
         hosp_reduction_effs |-> eff_seq(len(13), e, 4),
         malrti_reduction_effs |-> eff_seq(len(14), e, 5)]

Coverages == {Zero, Q(1, 4), Q(4, 5), One}

DaysChoices == {I(-1), Zero, Q(1461, 4)}

\* deviations of the proportion sum from 1: none, inside, on and outside
\* the tolerance of 0.001
Deltas == {Zero, Q(9, 10000), Q(1, 1000), Q(1, 500), Q(-1, 1000), Q(-1, 500)}

\* argument lists whose 14 sequences all have the same length: every
\* deviation of the proportion sum with the example's scalars and no
\* effectiveness, and every effectiveness and scalar choice with sum 1
Matched ==
    {MkArgs(t[1], t[2], c, y, t[3], t[4], 0, t[1]) :
        t \in {u \in (0..MaxSub) \X Deltas \X {0, 1} \X {0, 1} :
                  /\ u[1] = 0 => u[2] = Zero
                  /\ u[2] # Zero => (u[3] = 0 /\ u[4] = 0)},
        c \in Coverages, y \in DaysChoices}

\* argument lists in which exactly one of the 14 sequences has another length
Mismatched ==
    {MkArgs(t[1], d, Q(4, 5), y, 0, 0, odd, t[2]) :
        t \in {u \in (0..MaxSub) \X (0..MaxSub) : u[1] # u[2]},
        d \in {Zero, Q(1, 500)}, y \in DaysChoices, odd \in 1..14}

Inputs == Matched \cup Mismatched

\* the end-to-end example of the specification
ExampleArgs == MkArgs(1, Zero, Q(4, 5), Q(1461, 4), 0, 0, 0, 1)

----------------------------------------------------------------------------
(* One call of run_scenario on arbitrary inputs.                           *)

NoResult == [status |-> "none", error |-> "none", cost |-> Zero, dalys |-> Zero]

\* psa.py is not loaded
Unset == -1

NoData == [n_sub |-> 0]

NoFile == [written |-> FALSE, public |-> <<>>, societal |-> <<>>]

PsaNotRunning ==
    /\ DEFAULT_RNG = Unset
    /\ NP_RNG = Unset
    /\ data = NoData
    /\ fitted = <<>>
    /\ rand = <<>>
    /\ it = 0
    /\ societal_results = <<>>
    /\ public_results = <<>>
    /\ csv = NoFile
    /\ runs = <<>>
    /\ proc = 0

\* univariate.py and ceac.py are not running
DriversNotRunning ==
    /\ study = <<>>
    /\ univariate_results = <<>>
    /\ univariate_csv = NoFile
    /\ df = <<>>
    /\ ceac_data = NoFile
    /\ remaining = 0
    /\ out_parts = <<>>

Init ==
    /\ pc = "ready"
    /\ args \in Inputs
    /\ result = NoResult
    /\ calls = <<>>
    /\ PsaNotRunning
    /\ DriversNotRunning

\* the caller calls run_scenario(args) and gets the dict or the exception
CallRunScenario ==
    /\ pc = "ready"
    /\ pc' = "done"
    /\ result' = run_scenario(args)
    /\ args' = args_after_call(args)
    /\ calls' = Append(calls, CallRecord(args))
    /\ UNCHANGED psa_vars
    /\ UNCHANGED drv_vars
    /\ UNCHANGED smp_vars

Next == CallRunScenario

Spec == Init /\ [][Next]_vars

----------------------------------------------------------------------------
(* A caller making several calls of run_scenario, one after the other.     *)

MaxCalls == 3       \* number of calls the caller makes

\* a few argument lists, some returning a result and some raising
PureInputs ==
    {MkArgs(n, d, Q(4, 5), Q(1461, 4), 0, 0, 0, n) :
        n \in 0..MaxSub, d \in {Zero, Q(1, 500)}}
    \cup {MkArgs(1, Zero, Q(1, 4), Q(1461, 4), 1, 1, 0, 1)}

InitCalls ==
    /\ pc = "ready"
    /\ args \in PureInputs
    /\ result = NoResult
    /\ calls = <<>>
    /\ PsaNotRunning
    /\ DriversNotRunning

\* the caller builds the argument lists of its next call
PrepareCall ==
    /\ pc = "done"
    /\ Len(calls) < MaxCalls
    /\ pc' = "ready"
    /\ args' \in PureInputs
    /\ UNCHANGED <<result, calls>>
    /\ UNCHANGED psa_vars
    /\ UNCHANGED drv_vars
    /\ UNCHANGED smp_vars

NextCalls == CallRunScenario \/ PrepareCall

SpecCalls == InitCalls /\ [][NextCalls]_vars

----------------------------------------------------------------------------
(* stat_tools/fit_distributions.py and stat_tools/sampling.py, as far as   *)
(* psa.py uses them.  A fitted distribution is represented by the summary  *)
(* statistics it was fitted to (mean, lower and upper bound) instead of    *)
(* its numeric parameters, and a draw returns one of these three points,   *)
(* chosen by the state of the generator.                                   *)

Fitted(kind, mean, lo, hi) ==
    [raised |-> FALSE, kind |-> kind, mean |-> mean, lo |-> lo, hi |-> hi]

FitRaise == [raised |-> TRUE, kind |-> "ValueError", mean |-> Zero, lo |-> Zero, hi |-> Zero]

\* Python's None in the effectiveness parameter lists
None == [raised |-> FALSE, kind |-> "None", mean |-> Zero, lo |-> Zero, hi |-> Zero]

\* fit_beta checking the mean only
fit_beta_bounds_unchecked(mean_target, lower_target, upper_target) ==
    IF ~(RLt(Zero, mean_target) /\ RLt(mean_target, One))
    THEN FitRaise
    ELSE Fitted("beta", mean_target, lower_target, upper_target)

fit_beta(mean_target, lower_target, upper_target) ==
    IF ~(RLt(Zero, mean_target) /\ RLt(mean_target, One))
    THEN FitRaise
    ELSE IF ~(RLt(Zero, lower_target) /\ RLt(lower_target, upper_target)
              /\ RLt(upper_target, One))
         THEN FitRaise
         ELSE Fitted("beta", mean_target, lower_target, upper_target)

\* math.log(mean_target / implied_mean) raises ValueError for mean_target <= 0
fit_lognormal(mean_target, lower_target, upper_target) ==
    IF RLe(lower_target, Zero) \/ RLe(upper_target, Zero)
    THEN FitRaise
    ELSE IF RLe(upper_target, lower_target)
         THEN FitRaise
         ELSE IF RLe(mean_target, Zero)
              THEN FitRaise
              ELSE Fitted("lognormal", mean_target, lower_target, upper_target)

\* np.log(x): the logarithm of a positive x, kept as ln(of); -inf for 0 and
\* nan for a negative x (with a RuntimeWarning, never an exception)
np_log(x) ==
    IF RLt(Zero, x) THEN [kind |-> "finite", of |-> x]
    ELSE IF x = Zero THEN [kind |-> "-inf", of |-> Zero]
    ELSE [kind |-> "nan", of |-> Zero]

\* (log_u - log_l) / d for a finite log_u and d > 0: the quotient
\* (ln(minuend) - ln(subtrahend)) / over, or inf, or nan
log_difference_over(log_u, log_l, d) ==
    IF log_l.kind = "nan" THEN [kind |-> "nan", minuend |-> Zero,
                                subtrahend |-> Zero, over |-> d]
    ELSE IF log_l.kind = "-inf" THEN [kind |-> "inf", minuend |-> Zero,
                                      subtrahend |-> Zero, over |-> d]
    ELSE [kind |-> "finite", minuend |-> log_u.of, subtrahend |-> log_l.of,
          over |-> d]

\* fit_lognormal_briggs dividing the log range by 1.96 only
fit_lognormal_briggs_one_sided(central_value, variation) ==
    IF RLe(central_value, Zero)
    THEN FitRaise
    ELSE IF RLe(variation, Zero)
         THEN FitRaise
         ELSE LET lower_bound == RMul(central_value, RSub(One, variation))
                  upper_bound == RMul(central_value, RAdd(One, variation))
              IN  Fitted("lognormal", central_value, lower_bound, upper_bound)
                  @@ [mu |-> np_log(central_value),
                      sigma |-> log_difference_over(np_log(upper_bound),
                                    np_log(lower_bound), Q(49, 25))]

\* the fitted distribution carries its parameters mu and sigma besides the
\* summary statistics that stand for it in the draws
fit_lognormal_briggs(central_value, variation) ==
    IF RLe(central_value, Zero)
    THEN FitRaise
    ELSE IF RLe(variation, Zero)
         THEN FitRaise
         ELSE LET lower_bound == RMul(central_value, RSub(One, variation))
                  upper_bound == RMul(central_value, RAdd(One, variation))
              IN  Fitted("lognormal", central_value, lower_bound, upper_bound)
                  @@ [mu |-> np_log(central_value),
                      sigma |-> log_difference_over(np_log(upper_bound),
                                    np_log(lower_bound),
                                    RMul(I(2), Q(49, 25)))]

\* the generators: a linear congruential sequence stands for the Mersenne
\* Twister / PCG64 streams; seeding sets the state, every draw advances it
rng_seed(seed) == seed

rng_next(s) == (75 * s + 74) % 65537

RECURSIVE rng_after(_, _)
rng_after(s, k) == IF k = 0 THEN s ELSE rng_after(rng_next(s), k - 1)

\* the value drawn from distribution d by a generator that is in state s
\* after the draw
variate(d, s) == <<d.lo, d.mean, d.hi>>[(s % 3) + 1]

\* rng.betavariate(alpha, beta) as the k-th draw from state s
betavariate(d, s, k) == variate(d, rng_after(s, k))

\* sample_lognormal(1, mu, sigma, rng)[0] as the k-th draw from state s
sample_lognormal(d, s, k) == variate(d, rng_after(s, k))

\* pert.rvs(mini, mode, maxi, random_state) as the k-th draw from state s
pert_rvs(mini, mode, maxi, s, k) ==
    variate([lo |-> mini, mean |-> mode, hi |-> maxi], rng_after(s, k))

calculate_salary_loss(illness_duration_days, affected_caregivers_proportion, caregiver_daily_salary) ==
    RMul(RMul(illness_duration_days, affected_caregivers_proportion),
         caregiver_daily_salary)

----------------------------------------------------------------------------
(* psa.py                                                                  *)

N == 2              \* iterations of the sampling loop (10000 in psa.py)

MaxRuns == 2        \* PSA runs observed

Seed == 42

DAYS_IN_YEAR == Q(1461, 4)

\* the enriched input tables with n subgroups: population proportions
\* summing to 1 + delta; nirsevimab effectiveness nonzero in every subgroup
\* (z = 0) or in subgroup 1 only (z = 1); the lower bound of the last
\* subgroup's hospitalization proportion positive (ci_ok) or zero
MkData(n, delta, z, ci_ok) ==
    LET eff(i, v) == IF z = 1 /\ i > 1 THEN Zero ELSE v
    IN  [n_sub |-> n,
         cohort |-> I(1000),
         nirsevimab_coverage |-> Q(4, 5),
         nirsevimab_min_expected_coverage |-> Q(7, 10),
         nirsevimab_max_expected_coverage |-> Q(9, 10),
         vaccine_coverage |-> Q(1, 2),
         nirsevimab_dose_cost |-> I(50),
         vaccine_dose_cost |-> I(40),
         severe_case_dw |-> Q(1, 5),
         severe_case_dw_ci95_lower |-> Q(1, 10),
         severe_case_dw_ci95_upper |-> Q(3, 10),
         moderate_case_dw |-> Q(1, 10),
         moderate_case_dw_ci95_lower |-> Q(1, 20),
         moderate_case_dw_ci95_upper |-> Q(1, 5),
         severe_illness_duration_days |-> I(7),
         moderate_illness_duration_days |-> I(5),
         discounted_yll |-> I(5),
         population_proportions |-> population_seq(n, delta),
         hosp_proportions |-> [i \in 1..n |-> Q(i, 50)],
         hosp_proportion_ci95_lowers |->
             [i \in 1..n |-> IF i = n /\ ~ci_ok THEN Zero ELSE Q(i, 100)],
         hosp_proportion_ci95_uppers |-> [i \in 1..n |-> Q(i, 25)],
         outpatient_proportions |-> [i \in 1..n |-> Q(i, 10)],
         outpatient_proportion_ci95_lowers |-> [i \in 1..n |-> Q(i, 20)],
         outpatient_proportion_ci95_uppers |-> [i \in 1..n |-> Q(i, 5)],
         lethality_proportions |-> [i \in 1..n |-> Q(i, 100)],
         inpatient_costs |-> [i \in 1..n |-> I(400 * i)],
         inpatient_pcr_costs |-> [i \in 1..n |-> I(20)],
         outpatient_ec_costs |-> [i \in 1..n |-> I(40 * i)],
         outpatient_pc_costs |-> [i \in 1..n |-> I(20 * i)],
         inpatient_transport_costs |-> [i \in 1..n |-> I(8)],
         outpatient_transport_costs |-> [i \in 1..n |-> I(4)],
         nirsevimab_hosp_reduction_effs |-> [i \in 1..n |-> eff(i, Q(3, 4))],
         nirsevimab_hosp_reduction_eff_ci95_lowers |->
             [i \in 1..n |-> eff(i, Q(1, 2))],
         nirsevimab_hosp_reduction_eff_ci95_uppers |->
             [i \in 1..n |-> eff(i, Q(9, 10))],
         nirsevimab_malrti_reduction_effs |-> [i \in 1..n |-> eff(i, Q(1, 2))],
         nirsevimab_malrti_reduction_eff_ci95_lowers |->
             [i \in 1..n |-> eff(i, Q(1, 4))],
         nirsevimab_malrti_reduction_eff_ci95_uppers |->
             [i \in 1..n |-> eff(i, Q(3, 4))],
         vaccine_hosp_reduction_effs |-> [i \in 1..n |-> Q(1, 2 * i)],
         vaccine_malrti_reduction_effs |-> [i \in 1..n |-> Q(1, 4 * i)],
         affected_caregivers_proportions |-> [i \in 1..n |-> Q(1, 2)],
         caregiver_daily_salaries |-> [i \in 1..n |-> I(20 * i)]]

Datasets ==
    {MkData(n, d, z, ok) :
        n \in 1..MaxSub, d \in {Zero, Q(1, 500)}, z \in {0, 1}, ok \in BOOLEAN}

\* main(), lines 88-148: the fitted parameters of every uncertain input
fit_all(dt) ==
    LET n == dt.n_sub
    IN  [moderate_case_dw |->
             fit_beta(dt.moderate_case_dw, dt.moderate_case_dw_ci95_lower,
                      dt.moderate_case_dw_ci95_upper),
         severe_case_dw |->
             fit_beta(dt.severe_case_dw, dt.severe_case_dw_ci95_lower,
                      dt.severe_case_dw_ci95_upper),
         hosp_proportions |->
             [i \in 1..n |-> fit_lognormal(dt.hosp_proportions[i],
                                 dt.hosp_proportion_ci95_lowers[i],
                                 dt.hosp_proportion_ci95_uppers[i])],
         outpatient_proportions |->
             [i \in 1..n |-> fit_lognormal(dt.outpatient_proportions[i],
                                 dt.outpatient_proportion_ci95_lowers[i],
                                 dt.outpatient_proportion_ci95_uppers[i])],
         inpatient_costs |->
             [i \in 1..n |-> fit_lognormal_briggs(dt.inpatient_costs[i], Q(1, 4))],
         outpatient_pc_costs |->
             [i \in 1..n |-> fit_lognormal_briggs(dt.outpatient_pc_costs[i], Q(1, 4))],
         outpatient_ec_costs |->
             [i \in 1..n |-> fit_lognormal_briggs(dt.outpatient_ec_costs[i], Q(1, 4))],
         caregiver_daily_salary |->
             [i \in 1..n |->
                 fit_lognormal_briggs(dt.caregiver_daily_salaries[i], Q(1, 4))],
         nirsevimab_hosp_reduction |->
             [i \in 1..n |->
                 IF dt.nirsevimab_hosp_reduction_effs[i] # Zero
                 THEN fit_beta(dt.nirsevimab_hosp_reduction_effs[i],
                               dt.nirsevimab_hosp_reduction_eff_ci95_lowers[i],
                               dt.nirsevimab_hosp_reduction_eff_ci95_uppers[i])
                 ELSE None],
         nirsevimab_malrti_reduction |->
             [i \in 1..n |->
                 IF dt.nirsevimab_malrti_reduction_effs[i] # Zero
                 THEN fit_beta(dt.nirsevimab_malrti_reduction_effs[i],
                               dt.nirsevimab_malrti_reduction_eff_ci95_lowers[i],
                               dt.nirsevimab_malrti_reduction_eff_ci95_uppers[i])
                 ELSE None]]

\* some fitting call of main() raised
fit_raised(f) ==
    \/ f.moderate_case_dw.raised
    \/ f.severe_case_dw.raised
    \/ \E i \in DOMAIN f.hosp_proportions :
           \/ f.hosp_proportions[i].raised
           \/ f.outpatient_proportions[i].raised
           \/ f.inpatient_costs[i].raised
           \/ f.outpatient_pc_costs[i].raised
           \/ f.outpatient_ec_costs[i].raised
           \/ f.caregiver_daily_salary[i].raised
           \/ f.nirsevimab_hosp_reduction[i].raised
           \/ f.nirsevimab_malrti_reduction[i].raised

\* number of entries of params[1..i] that are not None
sampled_upto(params, i) == Cardinality({j \in 1..i : params[j] # None})

\* draws from DEFAULT_RNG in one iteration if every subgroup were sampled
default_draws_every_subgroup(f, n) == 2 + 8 * n

\* draws from DEFAULT_RNG in one iteration
default_draws(f, n) ==
    2 + 6 * n + sampled_upto(f.nirsevimab_hosp_reduction, n)
      + sampled_upto(f.nirsevimab_malrti_reduction, n)

\* main(), lines 155-230: the draws of one iteration, in the order of the
\* code, from generators in the states s (DEFAULT_RNG) and t (NP_RNG)
sample_draws(dt, f, s, t) ==
    LET n == dt.n_sub
        salary == [i \in 1..n |->
                      sample_lognormal(f.caregiver_daily_salary[i], s, 2 + 5 * n + i)]
        h0 == 2 + 6 * n
        m0 == h0 + sampled_upto(f.nirsevimab_hosp_reduction, n)
    IN  [moderate_case_dw |-> betavariate(f.moderate_case_dw, s, 1),
         severe_case_dw |-> betavariate(f.severe_case_dw, s, 2),
         rand_hosp_proportions |->
             [i \in 1..n |-> sample_lognormal(f.hosp_proportions[i], s, 2 + i)],
         rand_outpatient_proportions |->
             [i \in 1..n |->
                 sample_lognormal(f.outpatient_proportions[i], s, 2 + n + i)],
         rand_inpatient_costs |->
             [i \in 1..n |->
                 sample_lognormal(f.inpatient_costs[i], s, 2 + 2 * n + i)],
         rand_outpatient_pc_costs |->
             [i \in 1..n |->
                 sample_lognormal(f.outpatient_pc_costs[i], s, 2 + 3 * n + i)],
         rand_outpatient_ec_costs |->
             [i \in 1..n |->
                 sample_lognormal(f.outpatient_ec_costs[i], s, 2 + 4 * n + i)],
         caregiver_daily_salary_draws |-> salary,
         rand_inpatient_caregiver_salary_losses |->
             [i \in 1..n |->
                 calculate_salary_loss(dt.severe_illness_duration_days,
                     dt.affected_caregivers_proportions[i], salary[i])],
         rand_outpatient_caregiver_salary_losses |->
             [i \in 1..n |->
                 calculate_salary_loss(dt.moderate_illness_duration_days,
                     dt.affected_caregivers_proportions[i], salary[i])],
         rand_nirsevimab_hosp_reduction_effs |->
             [i \in 1..n |->
                 IF f.nirsevimab_hosp_reduction[i] # None
                 THEN betavariate(f.nirsevimab_hosp_reduction[i], s,
                          h0 + sampled_upto(f.nirsevimab_hosp_reduction, i))
                 ELSE dt.nirsevimab_hosp_reduction_effs[i]],
         rand_nirsevimab_malrti_reduction_effs |->
             [i \in 1..n |->
                 IF f.nirsevimab_malrti_reduction[i] # None
                 THEN betavariate(f.nirsevimab_malrti_reduction[i], s,
                          m0 + sampled_upto(f.nirsevimab_malrti_reduction, i))
                 ELSE dt.nirsevimab_malrti_reduction_effs[i]],
         rand_nirsevimab_coverage |->
             pert_rvs(dt.nirsevimab_min_expected_coverage, dt.nirsevimab_coverage,
                      dt.nirsevimab_max_expected_coverage, t, 1)]

\* the iteration's draws with the coverage drawn from DEFAULT_RNG, after the
\* effectiveness draws, instead of from NP_RNG
sample_iteration_one_generator(dt, f, s, t) ==
    [sample_draws(dt, f, s, t) EXCEPT !.rand_nirsevimab_coverage =
        pert_rvs(dt.nirsevimab_min_expected_coverage, dt.nirsevimab_coverage,
                 dt.nirsevimab_max_expected_coverage, s,
                 default_draws(f, dt.n_sub) + 1)]

sample_iteration(dt, f, s, t) == sample_draws(dt, f, s, t)

\* the arguments of a run_scenario call of the loop: every call passes the
\* same scalars and the same sampled proportions and direct costs
psa_args(dt, r, coverage, intervention_dose_cost, inpatient_salary_losses, outpatient_salary_losses, hosp_effs, malrti_effs) ==
    [cohort |-> dt.cohort,
     coverage |-> coverage,
     intervention_dose_cost |-> intervention_dose_cost,
     severe_case_dw |-> r.severe_case_dw,
     moderate_case_dw |-> r.moderate_case_dw,
     severe_illness_duration_days |-> dt.severe_illness_duration_days,
     moderate_illness_duration_days |-> dt.moderate_illness_duration_days,
     days_in_year |-> DAYS_IN_YEAR,
     discounted_yll |-> dt.discounted_yll,
     population_proportions |-> dt.population_proportions,
     hosp_proportions |-> r.rand_hosp_proportions,
     outpatient_proportions |-> r.rand_outpatient_proportions,
     lethality_proportions |-> dt.lethality_proportions,
     inpatient_costs |-> r.rand_inpatient_costs,
     inpatient_pcr_costs |-> dt.inpatient_pcr_costs,
     outpatient_ec_costs |-> r.rand_outpatient_ec_costs,
     outpatient_pc_costs |-> r.rand_outpatient_pc_costs,
     inpatient_transport_costs |-> dt.inpatient_transport_costs,
     inpatient_caregiver_salary_losses |-> inpatient_salary_losses,
     outpatient_transport_costs |-> dt.outpatient_transport_costs,
     outpatient_caregiver_salary_losses |-> outpatient_salary_losses,
     hosp_reduction_effs |-> hosp_effs,
     malrti_reduction_effs |-> malrti_effs]

\* [0.0] * n_sub
zeros(n) == [i \in 1..n |-> Zero]

societal_nirsevimab_args(dt, r) ==
    psa_args(dt, r, r.rand_nirsevimab_coverage, dt.nirsevimab_dose_cost,
             r.rand_inpatient_caregiver_salary_losses,
             r.rand_outpatient_caregiver_salary_losses,
             r.rand_nirsevimab_hosp_reduction_effs,
             r.rand_nirsevimab_malrti_reduction_effs)

\* societal_vaccine call passing the baseline hospitalization proportions
societal_vaccine_args_baseline(dt, r) ==
    [psa_args(dt, r, dt.vaccine_coverage, dt.vaccine_dose_cost,
              r.rand_inpatient_caregiver_salary_losses,
              r.rand_outpatient_caregiver_salary_losses,
              dt.vaccine_hosp_reduction_effs, dt.vaccine_malrti_reduction_effs)
        EXCEPT !.hosp_proportions = dt.hosp_proportions]

societal_vaccine_args(dt, r) ==
    psa_args(dt, r, dt.vaccine_coverage, dt.vaccine_dose_cost,
             r.rand_inpatient_caregiver_salary_losses,
             r.rand_outpatient_caregiver_salary_losses,
             dt.vaccine_hosp_reduction_effs, dt.vaccine_malrti_reduction_effs)

public_nirsevimab_args(dt, r) ==
    psa_args(dt, r, r.rand_nirsevimab_coverage, dt.nirsevimab_dose_cost,
             zeros(dt.n_sub), zeros(dt.n_sub),
             dt.nirsevimab_hosp_reduction_effs,
             dt.nirsevimab_malrti_reduction_effs)

public_vaccine_args(dt, r) ==
    psa_args(dt, r, dt.vaccine_coverage, dt.vaccine_dose_cost,
             zeros(dt.n_sub), zeros(dt.n_sub),
             dt.vaccine_hosp_reduction_effs, dt.vaccine_malrti_reduction_effs)


NoArgs == <<>>

\* an interpreter is started on psa.py with some input tables on disk
InitPSA ==
    /\ pc = "start"
    /\ args = NoArgs
    /\ result = NoResult
    /\ calls = <<>>
    /\ DEFAULT_RNG = Unset
    /\ NP_RNG = Unset
    /\ data \in Datasets
    /\ fitted = <<>>
    /\ rand = <<>>
    /\ it = 0
    /\ societal_results = <<>>
    /\ public_results = <<>>
    /\ csv = NoFile
    /\ runs = <<>>
    /\ proc = 1
    /\ DriversNotRunning

\* the module body of psa.py: both generators are created, seeded with 42
ImportPsa ==
    /\ pc = "start"
    /\ pc' = "imported"
    /\ DEFAULT_RNG' = rng_seed(Seed)
    /\ NP_RNG' = rng_seed(Seed)
    /\ UNCHANGED <<args, result, calls, data, fitted, rand, it,
                   societal_results, public_results, csv, runs, proc>>
    /\ UNCHANGED drv_vars
    /\ UNCHANGED smp_vars

\* main() up to the loop: load, fit (a fit may raise), create the lists
MainFit ==
    /\ pc = "imported"
    /\ fitted' = fit_all(data)
    /\ pc' = IF fit_raised(fit_all(data)) THEN "failed" ELSE "loop"
    /\ it' = 0
    /\ societal_results' = <<>>
    /\ public_results' = <<>>
    /\ rand' = <<>>
    /\ calls' = <<>>
    /\ UNCHANGED <<args, result, DEFAULT_RNG, NP_RNG, data, csv, runs, proc>>
    /\ UNCHANGED drv_vars
    /\ UNCHANGED smp_vars

\* the sampling part of one loop iteration
Sample ==
    /\ pc = "loop"
    /\ it < N
    /\ rand' = sample_iteration(data, fitted, DEFAULT_RNG, NP_RNG)
    /\ DEFAULT_RNG' = rng_after(DEFAULT_RNG, default_draws(fitted, data.n_sub))
    /\ NP_RNG' = rng_after(NP_RNG, 1)
    /\ calls' = <<>>
    /\ pc' = "societal_nirsevimab"
    /\ UNCHANGED <<args, result, data, fitted, it, societal_results,
                   public_results, csv, runs, proc>>
    /\ UNCHANGED drv_vars
    /\ UNCHANGED smp_vars

\* one of the four run_scenario calls of the iteration; an exception leaves
\* main() and ends the process
PsaCall(here, a, there) ==
    /\ pc = here
    /\ calls' = Append(calls, CallRecord(a))
    /\ args' = calls'[Len(calls')].after
    /\ result' = calls'[Len(calls')].result
    /\ pc' = IF calls'[Len(calls')].result.status = "ok" THEN there ELSE "failed"
    /\ UNCHANGED psa_vars
    /\ UNCHANGED drv_vars
    /\ UNCHANGED smp_vars

CallSocietalNirsevimab ==
    PsaCall("societal_nirsevimab", societal_nirsevimab_args(data, rand),
            "societal_vaccine")

CallSocietalVaccine ==
    PsaCall("societal_vaccine", societal_vaccine_args(data, rand),
            "public_nirsevimab")

CallPublicNirsevimab ==
    PsaCall("public_nirsevimab", public_nirsevimab_args(data, rand),
            "public_vaccine")

CallPublicVaccine ==
    PsaCall("public_vaccine", public_vaccine_args(data, rand), "append")

\* the pair with the DALY difference taken the other way round
incremental_dalys_reversed(nirsevimab, vaccine) ==
    [incremental_cost |-> RSub(nirsevimab.cost, vaccine.cost),
     incremental_dalys |-> RSub(nirsevimab.dalys, vaccine.dalys)]

\* the pair appended to a result list
incremental(nirsevimab, vaccine) ==
    [incremental_cost |-> RSub(nirsevimab.cost, vaccine.cost),
     incremental_dalys |-> RSub(vaccine.dalys, nirsevimab.dalys)]

\* an iteration ending with the societal append only
AppendResults_societal_only ==
    /\ pc = "append"
    /\ societal_results' =
           Append(societal_results, incremental(calls[1].result, calls[2].result))
    /\ it' = it + 1
    /\ pc' = "loop"
    /\ UNCHANGED <<args, result, calls, DEFAULT_RNG, NP_RNG, data, fitted, rand,
                   public_results, csv, runs, proc>>
    /\ UNCHANGED drv_vars
    /\ UNCHANGED smp_vars

\* the two appends ending an iteration
AppendResults ==
    /\ pc = "append"
    /\ societal_results' =
           Append(societal_results, incremental(calls[1].result, calls[2].result))
    /\ public_results' =
           Append(public_results, incremental(calls[3].result, calls[4].result))
    /\ it' = it + 1
    /\ pc' = "loop"
    /\ UNCHANGED <<args, result, calls, DEFAULT_RNG, NP_RNG, data, fitted, rand,
                   csv, runs, proc>>
    /\ UNCHANGED drv_vars
    /\ UNCHANGED smp_vars

\* after the loop: both lists are written to their files
WriteCsv ==
    /\ pc = "loop"
    /\ it = N
    /\ csv' = [written |-> TRUE, public |-> public_results,
               societal |-> societal_results]
    /\ runs' = Append(runs, [proc |-> proc, public |-> public_results,
                             societal |-> societal_results])
    /\ pc' = "finished"
    /\ UNCHANGED <<args, result, calls, DEFAULT_RNG, NP_RNG, data, fitted, rand,
                   it, societal_results, public_results, proc>>
    /\ UNCHANGED drv_vars
    /\ UNCHANGED smp_vars

\* main() is called once more in the same interpreter: the module-level
\* generators are the ones the previous run left
MainAgain ==
    /\ pc = "finished"
    /\ Len(runs) < MaxRuns
    /\ pc' = "imported"
    /\ UNCHANGED <<args, result, calls, DEFAULT_RNG, NP_RNG, data, fitted, rand,
                   it, societal_results, public_results, csv, runs, proc>>
    /\ UNCHANGED drv_vars
    /\ UNCHANGED smp_vars

\* the interpreter exits and psa.py is started in a new one
NewProcess ==
    /\ pc = "finished"
    /\ Len(runs) < MaxRuns
    /\ pc' = "start"
    /\ proc' = proc + 1
    /\ DEFAULT_RNG' = Unset
    /\ NP_RNG' = Unset
    /\ UNCHANGED <<args, result, calls, data, fitted, rand, it, societal_results,
                   public_results, csv, runs>>
    /\ UNCHANGED drv_vars
    /\ UNCHANGED smp_vars

NextPSA ==
    \/ ImportPsa
    \/ MainFit
    \/ Sample
    \/ CallSocietalNirsevimab
    \/ CallSocietalVaccine
    \/ CallPublicNirsevimab
    \/ CallPublicVaccine
    \/ AppendResults
    \/ WriteCsv
    \/ MainAgain
    \/ NewProcess

SpecPSA == InitPSA /\ [][NextPSA]_vars

----------------------------------------------------------------------------
(* univariate.py                                                           *)

\* an optional parameter of run_univariate left at its default None
NotGiven == <<>>

\* the keyword arguments of one run_univariate call
Study(param_name, n_coverage, hosp_proportions, outpatient_proportions, inpatient_costs_factors, outpatient_ec_costs_factors, outpatient_pc_costs_factors, inpatient_caregiver_salary_losses_factors, outpatient_caregiver_salary_losses_factors, n_hosp_reduction_effs, n_malrti_reduction_effs) ==
    [param_name |-> param_name,
     n_coverage |-> n_coverage,
     hosp_proportions |-> hosp_proportions,
     outpatient_proportions |-> outpatient_proportions,
     inpatient_costs_factors |-> inpatient_costs_factors,
     outpatient_ec_costs_factors |-> outpatient_ec_costs_factors,
     outpatient_pc_costs_factors |-> outpatient_pc_costs_factors,
     inpatient_caregiver_salary_losses_factors |->
         inpatient_caregiver_salary_losses_factors,
     outpatient_caregiver_salary_losses_factors |->
         outpatient_caregiver_salary_losses_factors,
     n_hosp_reduction_effs |-> n_hosp_reduction_effs,
     n_malrti_reduction_effs |-> n_malrti_reduction_effs]

\* x[b] if x is not None else baseline        (b = 1: index 0, b = 2: index 1)
bound_or_baseline(x, b, baseline) == IF x # NotGiven THEN x[b] ELSE baseline

\* (column * factors[b]).to_list() if factors is not None else column.to_list()
scaled_or_baseline(factors, b, column) ==
    IF factors # NotGiven
    THEN [i \in DOMAIN column |-> RMul(column[i], factors[b])]
    ELSE column

\* data_enricher.py: the salary-loss columns of the per-subgroup table
inpatient_caregiver_salary_loss(dt) ==
    [i \in 1..dt.n_sub |->
        calculate_salary_loss(dt.severe_illness_duration_days,
            dt.affected_caregivers_proportions[i], dt.caregiver_daily_salaries[i])]

outpatient_caregiver_salary_loss(dt) ==
    [i \in 1..dt.n_sub |->
        calculate_salary_loss(dt.moderate_illness_duration_days,
            dt.affected_caregivers_proportions[i], dt.caregiver_daily_salaries[i])]

\* the arguments of the run_scenario call of run_univariate for bound b,
\* perspective ("soc" or "phs") and arm ("nirsevimab" or "vaccine")
univariate_args(dt, st, b, perspective, arm) ==
    [cohort |-> dt.cohort,
     coverage |->
         IF arm = "nirsevimab"
         THEN bound_or_baseline(st.n_coverage, b, dt.nirsevimab_coverage)
         ELSE dt.vaccine_coverage,
     intervention_dose_cost |->
         IF arm = "nirsevimab" THEN dt.nirsevimab_dose_cost
         ELSE dt.vaccine_dose_cost,
     severe_case_dw |-> dt.severe_case_dw,
     moderate_case_dw |-> dt.moderate_case_dw,
     severe_illness_duration_days |-> dt.severe_illness_duration_days,
     moderate_illness_duration_days |-> dt.moderate_illness_duration_days,
     days_in_year |-> DAYS_IN_YEAR,
     discounted_yll |-> dt.discounted_yll,
     population_proportions |-> dt.population_proportions,
     hosp_proportions |->
         bound_or_baseline(st.hosp_proportions, b, dt.hosp_proportions),
     outpatient_proportions |->
         bound_or_baseline(st.outpatient_proportions, b, dt.outpatient_proportions),
     lethality_proportions |-> dt.lethality_proportions,
     inpatient_costs |->
         scaled_or_baseline(st.inpatient_costs_factors, b, dt.inpatient_costs),
     inpatient_pcr_costs |-> dt.inpatient_pcr_costs,
     outpatient_ec_costs |->
         scaled_or_baseline(st.outpatient_ec_costs_factors, b, dt.outpatient_ec_costs),
     outpatient_pc_costs |->
         scaled_or_baseline(st.outpatient_pc_costs_factors, b, dt.outpatient_pc_costs),
     inpatient_transport_costs |->
         IF perspective = "soc" THEN dt.inpatient_transport_costs
         ELSE zeros(dt.n_sub),
     inpatient_caregiver_salary_losses |->
         IF perspective = "soc"
         THEN scaled_or_baseline(st.inpatient_caregiver_salary_losses_factors, b,
                                 inpatient_caregiver_salary_loss(dt))
         ELSE zeros(dt.n_sub),
     outpatient_transport_costs |->
         IF perspective = "soc" THEN dt.outpatient_transport_costs
         ELSE zeros(dt.n_sub),
     outpatient_caregiver_salary_losses |->
         IF perspective = "soc"
         THEN scaled_or_baseline(st.outpatient_caregiver_salary_losses_factors, b,
                                 outpatient_caregiver_salary_loss(dt))
         ELSE zeros(dt.n_sub),
     hosp_reduction_effs |->
         IF arm = "nirsevimab"
         THEN bound_or_baseline(st.n_hosp_reduction_effs, b,
                                dt.nirsevimab_hosp_reduction_effs)
         ELSE dt.vaccine_hosp_reduction_effs,
     malrti_reduction_effs |->
         IF arm = "nirsevimab"
         THEN bound_or_baseline(st.n_malrti_reduction_effs, b,
                                dt.nirsevimab_malrti_reduction_effs)
         ELSE dt.vaccine_malrti_reduction_effs]

\* the eight run_scenario calls of run_univariate, in the order of the code
univariate_calls(dt, st) ==
    << univariate_args(dt, st, 1, "soc", "nirsevimab"),
       univariate_args(dt, st, 1, "soc", "vaccine"),
       univariate_args(dt, st, 2, "soc", "nirsevimab"),
       univariate_args(dt, st, 2, "soc", "vaccine"),
       univariate_args(dt, st, 1, "phs", "nirsevimab"),
       univariate_args(dt, st, 1, "phs", "vaccine"),
       univariate_args(dt, st, 2, "phs", "nirsevimab"),
       univariate_args(dt, st, 2, "phs", "vaccine") >>

\* the result of a float division: the number x / y, kept as the quotient
\* of its operands, or one of the IEEE values inf, -inf, nan
Finite(x, y) == [kind |-> "finite", num |-> x, den |-> y]

NotFinite(kind) == [kind |-> kind, num |-> Zero, den |-> Zero]

\* x / y on Python floats: a zero divisor raises ZeroDivisionError
python_float_div(x, y) ==
    IF y # Zero THEN Finite(x, y) ELSE NotFinite("ZeroDivisionError")

\* x / y on numpy.float64 operands: a zero divisor gives inf, -inf or nan
\* (with a RuntimeWarning), never an exception
float64_div(x, y) ==
    IF y # Zero THEN Finite(x, y)
    ELSE IF x = Zero THEN NotFinite("nan")
         ELSE IF RLt(Zero, x) THEN NotFinite("inf") ELSE NotFinite("-inf")

\* the ICER with the cost difference taken as vaccine minus nirsevimab
icer_cost_reversed(nirsevimab_result, vaccine_result) ==
    float64_div(RSub(vaccine_result.cost, nirsevimab_result.cost),
                RSub(vaccine_result.dalys, nirsevimab_result.dalys))

\* (nirsevimab_result["cost"] - vaccine_result["cost"])
\*     / (vaccine_result["dalys"] - nirsevimab_result["dalys"])
icer(nirsevimab_result, vaccine_result) ==
    float64_div(RSub(nirsevimab_result.cost, vaccine_result.cost),
                RSub(vaccine_result.dalys, nirsevimab_result.dalys))

\* the return statement of run_univariate: the row of the four ICERs, each
\* computed from the two results of its perspective and bound; cl is the log
\* of the eight run_scenario calls, in the order of the code
univariate_row(st, cl) ==
    [param_name |-> st.param_name,
     icer_soc_lo |-> icer(cl[1].result, cl[2].result),
     icer_soc_hi |-> icer(cl[3].result, cl[4].result),
     icer_phs_lo |-> icer(cl[5].result, cl[6].result),
     icer_phs_hi |-> icer(cl[7].result, cl[8].result)]

\* the six run_univariate calls of main().  The bounds are those main()
\* passes, one per age group of the shipped data (three); the incidence and
\* effectiveness bounds are rounded to fractions with small denominators
\* (0.0128 to 1/100, 0.79 to 4/5, ...)
main_studies ==
    << Study("n_coverage", <<Q(1, 2), Q(19, 20)>>, NotGiven, NotGiven, NotGiven,
             NotGiven, NotGiven, NotGiven, NotGiven, NotGiven, NotGiven),
       Study("rsv_incidence", NotGiven,
             << <<Q(1, 100), Q(1, 100), Q(1, 100)>>,
                <<Q(1, 20), Q(1, 25), Q(1, 50)>> >>,
             << <<Q(1, 25), Q(1, 50), Q(1, 25)>>,
                <<Q(1, 5), Q(1, 4), Q(1, 5)>> >>,
             NotGiven, NotGiven, NotGiven, NotGiven, NotGiven, NotGiven, NotGiven),
       Study("inpatient_cost", NotGiven, NotGiven, NotGiven,
             <<Q(3, 4), Q(5, 4)>>, <<Q(3, 4), Q(5, 4)>>, NotGiven,
             NotGiven, NotGiven, NotGiven, NotGiven),
       Study("outpatient_cost", NotGiven, NotGiven, NotGiven,
             NotGiven, NotGiven, <<Q(3, 4), Q(5, 4)>>,
             NotGiven, NotGiven, NotGiven, NotGiven),
       Study("caregiver_salary", NotGiven, NotGiven, NotGiven,
             NotGiven, NotGiven, NotGiven,
             <<Q(3, 4), Q(5, 4)>>, <<Q(3, 4), Q(5, 4)>>, NotGiven, NotGiven),
       Study("n_effectiveness", NotGiven, NotGiven, NotGiven,
             NotGiven, NotGiven, NotGiven, NotGiven, NotGiven,
             << <<Q(7, 10), Q(7, 10), Zero>>, <<Q(4, 5), Q(4, 5), Zero>> >>,
             << <<Q(1, 2), Q(1, 2), Zero>>, <<Q(4, 5), Q(4, 5), Zero>> >>) >>

\* a run_univariate call overriding the parameters of one kind only
coverage_study(name, lo, hi) ==
    Study(name, <<lo, hi>>, NotGiven, NotGiven, NotGiven, NotGiven, NotGiven,
          NotGiven, NotGiven, NotGiven, NotGiven)

incidence_study(name, hosp_lo, hosp_hi, outpatient_lo, outpatient_hi) ==
    Study(name, NotGiven, <<hosp_lo, hosp_hi>>, <<outpatient_lo, outpatient_hi>>,
          NotGiven, NotGiven, NotGiven, NotGiven, NotGiven, NotGiven, NotGiven)

effectiveness_study(name, hosp_lo, hosp_hi, malrti_lo, malrti_hi) ==
    Study(name, NotGiven, NotGiven, NotGiven, NotGiven, NotGiven, NotGiven,
          NotGiven, NotGiven, <<hosp_lo, hosp_hi>>, <<malrti_lo, malrti_hi>>)

\* other run_univariate calls on the tables dt: bounds with one entry per
\* subgroup of dt; bounds under which both arms have the same DALYs (the
\* nirsevimab arm given the vaccine's coverage and effectiveness, or no
\* disease at all); bounds of the wrong length
OtherStudies(dt) ==
    LET n == dt.n_sub
    IN  { incidence_study("rsv_incidence", dt.hosp_proportion_ci95_lowers,
              dt.hosp_proportion_ci95_uppers, dt.outpatient_proportion_ci95_lowers,
              dt.outpatient_proportion_ci95_uppers),
          effectiveness_study("n_effectiveness",
              dt.nirsevimab_hosp_reduction_eff_ci95_lowers,
              dt.nirsevimab_hosp_reduction_eff_ci95_uppers,
              dt.nirsevimab_malrti_reduction_eff_ci95_lowers,
              dt.nirsevimab_malrti_reduction_eff_ci95_uppers),
          [effectiveness_study("as_vaccine", dt.vaccine_hosp_reduction_effs,
               dt.nirsevimab_hosp_reduction_effs, dt.vaccine_malrti_reduction_effs,
               dt.nirsevimab_malrti_reduction_effs)
              EXCEPT !.n_coverage = <<dt.vaccine_coverage, Q(19, 20)>>],
          [incidence_study("no_disease", zeros(n), dt.hosp_proportions,
               zeros(n), dt.outpatient_proportions)
              EXCEPT !.n_coverage = <<Q(2, 5), Q(4, 5)>>],
          [incidence_study("no_disease_low_coverage", zeros(n), zeros(n),
               zeros(n), zeros(n))
              EXCEPT !.n_coverage = <<Q(1, 5), Q(2, 5)>>],
          incidence_study("short_upper_bound", dt.hosp_proportion_ci95_lowers,
              zeros(n - 1), dt.outpatient_proportion_ci95_lowers,
              dt.outpatient_proportion_ci95_uppers) }

\* the lists of run_univariate calls a run of univariate.py makes: those of
\* main(), or others
StudyLists(dt) ==
    {main_studies}
    \cup {<<st>> : st \in OtherStudies(dt)}
    \cup {<<main_studies[1], st, main_studies[5]>> : st \in OtherStudies(dt)}

UnivariateDatasets ==
    {MkData(n, d, z, TRUE) :
        n \in 1..(MaxSub + 1), d \in {Zero, Q(1, 500)}, z \in {0, 1}}

UnivariateFile(rows) == [written |-> TRUE, rows |-> rows]

\* an interpreter is started on univariate.py with some input tables on disk
InitUnivariate ==
    /\ pc = "univariate_main"
    /\ args = NoArgs
    /\ result = NoResult
    /\ calls = <<>>
    /\ DEFAULT_RNG = Unset
    /\ NP_RNG = Unset
    /\ data \in UnivariateDatasets
    /\ fitted = <<>>
    /\ rand = <<>>
    /\ it = 0
    /\ societal_results = <<>>
    /\ public_results = <<>>
    /\ csv = NoFile
    /\ runs = <<>>
    /\ proc = 1
    /\ study \in StudyLists(data)
    /\ univariate_results = <<>>
    /\ univariate_csv = NoFile
    /\ df = <<>>
    /\ ceac_data = NoFile
    /\ remaining = 0
    /\ out_parts = <<>>

\* main() calls run_univariate with the keyword arguments of the next study
EnterRunUnivariate ==
    /\ pc = "univariate_main"
    /\ study # <<>>
    /\ pc' = "run_univariate"
    /\ calls' = <<>>
    /\ UNCHANGED <<args, result>>
    /\ UNCHANGED psa_vars
    /\ UNCHANGED drv_vars
    /\ UNCHANGED smp_vars

\* run_univariate makes the next of its eight run_scenario calls; a
\* ValueError leaves run_univariate and main()
UnivariateScenarioCall ==
    /\ pc = "run_univariate"
    /\ Len(calls) < 8
    /\ calls' = Append(calls,
           CallRecord(univariate_calls(data, Head(study))[Len(calls) + 1]))
    /\ args' = calls'[Len(calls')].after
    /\ result' = calls'[Len(calls')].result
    /\ pc' = IF calls'[Len(calls')].result.status = "ok"
             THEN "run_univariate" ELSE "failed"
    /\ UNCHANGED psa_vars
    /\ UNCHANGED drv_vars
    /\ UNCHANGED smp_vars

\* run_univariate returns its row and main() appends it
ReturnRow ==
    /\ pc = "run_univariate"
    /\ Len(calls) = 8
    /\ univariate_results' =
           Append(univariate_results, univariate_row(Head(study), calls))
    /\ study' = Tail(study)
    /\ pc' = "univariate_main"
    /\ UNCHANGED <<args, result, calls, univariate_csv, df, ceac_data>>
    /\ UNCHANGED smp_vars
    /\ UNCHANGED psa_vars

\* main() writing the rows wherever it stands, failed or not
WriteUnivariateCsv_in_finally ==
    /\ pc \in {"univariate_main", "failed"}
    /\ univariate_csv' = UnivariateFile(univariate_results)
    /\ pc' = "univariate_finished"
    /\ UNCHANGED <<args, result, calls, DEFAULT_RNG, NP_RNG, data, fitted, rand,
                   it, societal_results, public_results, csv, runs, proc, study,
                   univariate_results, df, ceac_data>>
    /\ UNCHANGED smp_vars

\* main() after its last run_univariate call: the rows are written
WriteUnivariateCsv ==
    /\ pc = "univariate_main"
    /\ study = <<>>
    /\ univariate_csv' = UnivariateFile(univariate_results)
    /\ pc' = "univariate_finished"
    /\ UNCHANGED <<args, result, calls, DEFAULT_RNG, NP_RNG, data, fitted, rand,
                   it, societal_results, public_results, csv, runs, proc, study,
                   univariate_results, df, ceac_data>>
    /\ UNCHANGED smp_vars

NextUnivariate ==
    \/ EnterRunUnivariate
    \/ UnivariateScenarioCall
    \/ ReturnRow
    \/ WriteUnivariateCsv

SpecUnivariate == InitUnivariate /\ [][NextUnivariate]_vars

\* a run of either driver script
InitDrivers == InitPSA \/ InitUnivariate

NextDrivers == NextPSA \/ NextUnivariate

SpecDrivers == InitDrivers /\ [][NextDrivers]_vars

----------------------------------------------------------------------------
(* main.py: the base case, four run_scenario calls on the enriched tables. *)

\* the arguments of the run_scenario call of main.py for one perspective
\* ("soc" or "phs") and arm ("nirsevimab" or "vaccine")
main_args(dt, perspective, arm) ==
    [cohort |-> dt.cohort,
     coverage |->
         IF arm = "nirsevimab" THEN dt.nirsevimab_coverage
         ELSE dt.vaccine_coverage,
     intervention_dose_cost |->
         IF arm = "nirsevimab" THEN dt.nirsevimab_dose_cost
         ELSE dt.vaccine_dose_cost,
     severe_case_dw |-> dt.severe_case_dw,
     moderate_case_dw |-> dt.moderate_case_dw,
     severe_illness_duration_days |-> dt.severe_illness_duration_days,
     moderate_illness_duration_days |-> dt.moderate_illness_duration_days,
     days_in_year |-> DAYS_IN_YEAR,
     discounted_yll |-> dt.discounted_yll,
     population_proportions |-> dt.population_proportions,
     hosp_proportions |-> dt.hosp_proportions,
     outpatient_proportions |-> dt.outpatient_proportions,
     lethality_proportions |-> dt.lethality_proportions,
     inpatient_costs |-> dt.inpatient_costs,
     inpatient_pcr_costs |-> dt.inpatient_pcr_costs,
     outpatient_ec_costs |-> dt.outpatient_ec_costs,
     outpatient_pc_costs |-> dt.outpatient_pc_costs,
     inpatient_transport_costs |-> dt.inpatient_transport_costs,
     inpatient_caregiver_salary_losses |->
         IF perspective = "soc" THEN inpatient_caregiver_salary_loss(dt)
         ELSE zeros(dt.n_sub),
     outpatient_transport_costs |-> dt.outpatient_transport_costs,
     outpatient_caregiver_salary_losses |->
         IF perspective = "soc" THEN outpatient_caregiver_salary_loss(dt)
         ELSE zeros(dt.n_sub),
     hosp_reduction_effs |->
         IF arm = "nirsevimab" THEN dt.nirsevimab_hosp_reduction_effs
         ELSE dt.vaccine_hosp_reduction_effs,
     malrti_reduction_effs |->
         IF arm = "nirsevimab" THEN dt.nirsevimab_malrti_reduction_effs
         ELSE dt.vaccine_malrti_reduction_effs]

\* the four run_scenario calls of main.py, in the order of the code
main_calls(dt) ==
    << main_args(dt, "soc", "nirsevimab"),
       main_args(dt, "soc", "vaccine"),
       main_args(dt, "phs", "nirsevimab"),
       main_args(dt, "phs", "vaccine") >>

\* an interpreter is started on main.py with some input tables on disk
InitBaseCase ==
    /\ pc = "base_case"
    /\ args = NoArgs
    /\ result = NoResult
    /\ calls = <<>>
    /\ DEFAULT_RNG = Unset
    /\ NP_RNG = Unset
    /\ data \in UnivariateDatasets
    /\ fitted = <<>>
    /\ rand = <<>>
    /\ it = 0
    /\ societal_results = <<>>
    /\ public_results = <<>>
    /\ csv = NoFile
    /\ runs = <<>>
    /\ proc = 1
    /\ DriversNotRunning

\* main() makes the next of its four run_scenario calls; a ValueError
\* leaves main()
BaseCaseScenarioCall ==
    /\ pc = "base_case"
    /\ Len(calls) < 4
    /\ calls' = Append(calls, CallRecord(main_calls(data)[Len(calls) + 1]))
    /\ args' = calls'[Len(calls')].after
    /\ result' = calls'[Len(calls')].result
    /\ pc' = IF calls'[Len(calls')].result.status = "ok"
             THEN "base_case" ELSE "base_case_failed"
    /\ UNCHANGED psa_vars
    /\ UNCHANGED drv_vars
    /\ UNCHANGED smp_vars

\* main() returns after the ICER of the public-payer perspective is printed
BaseCaseReturn ==
    /\ pc = "base_case"
    /\ Len(calls) = 4
    /\ pc' = "base_case_finished"
    /\ UNCHANGED <<args, result, calls>>
    /\ UNCHANGED psa_vars
    /\ UNCHANGED drv_vars
    /\ UNCHANGED smp_vars

NextBaseCase ==
    \/ BaseCaseScenarioCall
    \/ BaseCaseReturn

SpecBaseCase == InitBaseCase /\ [][NextBaseCase]_vars

\* a run of one of the three scripts that evaluate both perspectives
InitPerspectives == InitBaseCase \/ InitPSA \/ InitUnivariate

NextPerspectives == NextBaseCase \/ NextPSA \/ NextUnivariate

SpecPerspectives == InitPerspectives /\ [][NextPerspectives]_vars

----------------------------------------------------------------------------
(* ceac.py: the cost-effectiveness acceptability curve of each of the two  *)
(* PSA sample sets.  A float is a rational or NaN; the sample sets read    *)
(* hold finite numbers.                                                    *)

NaN == <<0, 0>>

isnan(x) == x = NaN

\* x > y and x <= y on floats: every comparison with NaN is False
float_gt(x, y) == ~isnan(x) /\ ~isnan(y) /\ RLt(y, x)

float_le(x, y) == ~isnan(x) /\ ~isnan(y) /\ RLe(x, y)

float_mul(x, y) == IF isnan(x) \/ isnan(y) THEN NaN ELSE RMul(x, y)

GridPoints == 100     \* number of thresholds of the grid

MaxSamples == 2       \* largest number of rows of a PSA result file

SampleCosts == {I(-2), Zero, I(3)}

SampleDalys == {I(-1), Zero, I(1), I(2)}

\* the sample sets a PSA result file can hold
SampleSets ==
    UNION {[1..k -> [incremental_cost : SampleCosts,
                     incremental_dalys : SampleDalys]] : k \in 0..MaxSamples}

Reverse(s) == [i \in 1..Len(s) |-> s[Len(s) + 1 - i]]

\* the two PSA result files ceac.py finds on disk; the societal file holds
\* the rows of the public one in the opposite order
PsaFiles ==
    {[written |-> TRUE, public |-> s, societal |-> Reverse(s)] : s \in SampleSets}

\* df[COST_COL] / df[DALYS_COL].replace(0, np.nan)
ratios(d) ==
    [i \in DOMAIN d |->
        IF d[i].incremental_dalys = Zero THEN NaN
        ELSE RDiv(d[i].incremental_cost, d[i].incremental_dalys)]

\* the builtin max over the items of s from position i on, m being the
\* largest so far: an item replaces m when item > m
RECURSIVE max_from(_, _, _)
max_from(s, i, m) ==
    IF i > Len(s) THEN m
    ELSE max_from(s, i + 1, IF float_gt(s[i], m) THEN s[i] ELSE m)

\* the builtin max of a non-empty sequence
max(s) == max_from(s, 2, s[1])

max_threshold(d) == max(ratios(d))

\* np.linspace(start, stop, num): num evenly spaced floats, the last one stop
linspace(start, stop, num) ==
    [k \in 1..num |->
        IF isnan(start) \/ isnan(stop) THEN NaN
        ELSE IF k = num THEN stop
        ELSE RAdd(start, RMul(I(k - 1), RDiv(RSub(stop, start), I(num - 1))))]

thresholds(d) == linspace(Zero, float_mul(max_threshold(d), Q(11, 10)), GridPoints)

\* the fraction of samples with cost >= threshold * dalys
prob_ge(d, threshold) ==
    LET hits == {i \in DOMAIN d :
                    float_le(float_mul(threshold, d[i].incremental_dalys),
                             d[i].incremental_cost)}
    IN  Q(Cardinality(hits), Len(d))

\* (df[COST_COL] <= threshold * df[DALYS_COL]).mean()
prob(d, threshold) ==
    LET hits == {i \in DOMAIN d :
                    float_le(d[i].incremental_cost,
                             float_mul(threshold, d[i].incremental_dalys))}
    IN  Q(Cardinality(hits), Len(d))

\* the table of thresholds and probabilities written for one sample set
CeacFile(d) ==
    LET grid == thresholds(d)
    IN  [written |-> TRUE, threshold |-> grid,
         probability |-> [k \in 1..GridPoints |-> prob(d, grid[k])]]

\* an interpreter is started on ceac.py with the two PSA result files on disk
InitCEAC ==
    /\ pc = "ceac_public"
    /\ args = NoArgs
    /\ result = NoResult
    /\ calls = <<>>
    /\ DEFAULT_RNG = Unset
    /\ NP_RNG = Unset
    /\ data = NoData
    /\ fitted = <<>>
    /\ rand = <<>>
    /\ it = 0
    /\ societal_results = <<>>
    /\ public_results = <<>>
    /\ csv \in PsaFiles
    /\ runs = <<>>
    /\ proc = 1
    /\ study = <<>>
    /\ univariate_results = <<>>
    /\ univariate_csv = NoFile
    /\ df = <<>>
    /\ ceac_data = NoFile
    /\ remaining = 0
    /\ out_parts = <<>>

\* one pass of the loop over the perspectives: the sample set is read, its
\* table is built and written; max() of an empty column raises ValueError
CeacPass(here, input, there) ==
    /\ pc = here
    /\ df' = input
    /\ IF df' = <<>>
       THEN /\ pc' = "failed"
            /\ UNCHANGED ceac_data
       ELSE /\ ceac_data' = CeacFile(df')
            /\ pc' = there
    /\ UNCHANGED <<args, result, calls, DEFAULT_RNG, NP_RNG, data, fitted, rand,
                   it, societal_results, public_results, csv, runs, proc, study,
                   univariate_results, univariate_csv>>
    /\ UNCHANGED smp_vars

CeacPublic == CeacPass("ceac_public", csv.public, "ceac_societal")

CeacSocietal == CeacPass("ceac_societal", csv.societal, "ceac_finished")

NextCEAC == CeacPublic \/ CeacSocietal

SpecCEAC == InitCEAC /\ [][NextCEAC]_vars

----------------------------------------------------------------------------
(* stat_tools/fit_distributions.py: the parameters the fitting routines    *)
(* return.  math.log and math.exp are not rational functions: for          *)
(* fit_lognormal a float is given by its sign and its natural logarithm,   *)
(* so that math.log, math.exp, products and quotients are exact.           *)

\* the float sign * e^ln (sign 1 or -1), and the float 0
LogNum(sign, ln) == [sign |-> sign, ln |-> ln]

LogZero == LogNum(0, Zero)

\* x <= 0 on such floats
log_nonpositive(x) == x.sign <= 0

\* x <= y on such floats
log_le(x, y) ==
    IF x.sign # y.sign THEN x.sign < y.sign
    ELSE IF x.sign = 0 THEN TRUE
    ELSE IF x.sign = 1 THEN RLe(x.ln, y.ln)
    ELSE RLe(y.ln, x.ln)

\* x / y for y # 0
log_div(x, y) ==
    IF x.sign = 0 THEN LogZero ELSE LogNum(x.sign * y.sign, RSub(x.ln, y.ln))

math_exp(q) == LogNum(1, q)

z == Q(49, 25)     \* 1.96

FitParams(mu, sigma) == [raised |-> FALSE, kind |-> "lognormal", mu |-> mu, sigma |-> sigma]

\* fit_lognormal returning the midpoint of the logarithms, uncorrected
fit_lognormal_uncorrected(mean_target, lower_target, upper_target) ==
    IF log_nonpositive(lower_target) \/ log_nonpositive(upper_target)
    THEN FitRaise
    ELSE IF log_le(upper_target, lower_target)
         THEN FitRaise
         ELSE FitParams(RDiv(RAdd(lower_target.ln, upper_target.ln), I(2)),
                        RDiv(RSub(upper_target.ln, lower_target.ln),
                             RMul(I(2), z)))

\* fit_lognormal: (mu, sigma), or the ValueError of one of its two checks or
\* of math.log(mean_target / implied_mean) for mean_target <= 0
fit_lognormal_mu_sigma(mean_target, lower_target, upper_target) ==
    IF log_nonpositive(lower_target) \/ log_nonpositive(upper_target)
    THEN FitRaise
    ELSE IF log_le(upper_target, lower_target)
         THEN FitRaise
         ELSE LET log_l == lower_target.ln
                  log_u == upper_target.ln
                  sigma == RDiv(RSub(log_u, log_l), RMul(I(2), z))
                  mu == RDiv(RAdd(log_l, log_u), I(2))
                  implied_mean == math_exp(RAdd(mu, RDiv(RMul(sigma, sigma), I(2))))
                  ratio == log_div(mean_target, implied_mean)
              IN  IF implied_mean.sign = 1
                  THEN IF ratio.sign = 1
                       THEN FitParams(RAdd(mu, ratio.ln), sigma)
                       ELSE FitRaise
                  ELSE FitParams(mu, sigma)

\* the floats fit_lognormal is called with
LogValues ==
    {LogNum(-1, Zero), LogZero, LogNum(1, I(-3)), LogNum(1, I(-1)),
     LogNum(1, Zero), LogNum(1, Q(1, 2)), LogNum(1, I(2))}

FitLognormalCalls ==
    {[fn |-> "fit_lognormal", mean_target |-> m, lower_target |-> l,
      upper_target |-> u] : m \in LogValues, l \in LogValues, u \in LogValues}

FitLognormalBriggsCalls ==
    {[fn |-> "fit_lognormal_briggs", central_value |-> c, variation |-> v] :
        c \in {I(-1), Zero, One, Q(5, 2), I(100)},
        v \in {Q(-1, 4), Zero, Q(1, 4), Q(1, 2), One, Q(3, 2)}}

\* fit_normal: (mean, sd) with sd = (upper_target - lower_target) / (2 * z)
fit_normal(mean_target, lower_target, upper_target) ==
    IF RLe(upper_target, lower_target)
    THEN FitRaise
    ELSE [raised |-> FALSE, kind |-> "normal", mean |-> mean_target,
          sd |-> RDiv(RSub(upper_target, lower_target), RMul(I(2), z))]

\* the numbers fit_beta and fit_normal are called with
UnitValues == {Q(-1, 10), Zero, Q(3, 10), Q(1, 2), Q(7, 10), One, Q(11, 10)}

FitBetaCalls ==
    {[fn |-> "fit_beta", mean_target |-> m, lower_target |-> l,
      upper_target |-> u] : m \in UnitValues, l \in UnitValues, u \in UnitValues}

FitNormalCalls ==
    {[fn |-> "fit_normal", mean_target |-> m, lower_target |-> l,
      upper_target |-> u] :
        m \in {Zero, Q(1, 2)}, l \in UnitValues, u \in UnitValues}

\* the call about to be made is a call of one of the four routines
FitCall(a) ==
    \/ a \in FitBetaCalls
    \/ a \in FitLognormalCalls
    \/ a \in FitLognormalBriggsCalls
    \/ a \in FitNormalCalls

\* a fitting routine is about to be called
InitFit ==
    /\ pc = "fit_call"
    /\ FitCall(args)
    /\ result = NoResult
    /\ calls = <<>>
    /\ PsaNotRunning
    /\ DriversNotRunning

\* the call returns its parameters or raises
Returned(r) ==
    /\ result' = r
    /\ pc' = IF r.raised THEN "fit_raised" ELSE "fit_returned"
    /\ UNCHANGED <<args, calls>>
    /\ UNCHANGED psa_vars
    /\ UNCHANGED drv_vars
    /\ UNCHANGED smp_vars

CallFitLognormal ==
    /\ pc = "fit_call"
    /\ args.fn = "fit_lognormal"
    /\ Returned(fit_lognormal_mu_sigma(args.mean_target, args.lower_target,
                                       args.upper_target))

CallFitLognormalBriggs ==
    /\ pc = "fit_call"
    /\ args.fn = "fit_lognormal_briggs"
    /\ Returned(fit_lognormal_briggs(args.central_value, args.variation))

CallFitBeta ==
    /\ pc = "fit_call"
    /\ args.fn = "fit_beta"
    /\ Returned(fit_beta(args.mean_target, args.lower_target, args.upper_target))

CallFitNormal ==
    /\ pc = "fit_call"
    /\ args.fn = "fit_normal"
    /\ Returned(fit_normal(args.mean_target, args.lower_target, args.upper_target))

NextFit ==
    \/ CallFitBeta
    \/ CallFitLognormal
    \/ CallFitLognormalBriggs
    \/ CallFitNormal

SpecFit == InitFit /\ [][NextFit]_vars

----------------------------------------------------------------------------
(* stat_tools/sampling.py: sample_truncated_normal.  The variates of a     *)
(* batch are any of three points of the normal distribution; the state of  *)
(* the generator records how many variates it has produced.                *)

MaxCount == 2       \* largest number n of values asked for

MinBatch == 2       \* smallest batch drawn (1024 in sampling.py)

MaxBatches == 3     \* batches observed in one call

RMin(x, y) == IF RLe(x, y) THEN x ELSE y

RMax(x, y) == IF RLe(y, x) THEN x ELSE y

IMin(x, y) == IF x <= y THEN x ELSE y

IMax(x, y) == IF y <= x THEN x ELSE y

\* np.concatenate(parts).tolist()
RECURSIVE concatenate(_)
concatenate(parts) ==
    IF parts = <<>> THEN <<>> ELSE Head(parts) \o concatenate(Tail(parts))

\* the values rng.normal(mean, sd) can produce
NormalValues(mean, sd) ==
    {RSub(mean, RMul(I(2), sd)), mean, RAdd(mean, RMul(I(2), sd))}

\* samples[(samples >= lo) & (samples <= hi)]
accepted_of(samples, lo, hi) ==
    LET inside(x) == RLe(lo, x) /\ RLe(x, hi)
    IN  SelectSeq(samples, inside)

SamplerList(values) == [status |-> "ok", values |-> values]

SamplerRaise == [status |-> "ValueError", values |-> <<>>]

SamplerCalls ==
    {[n |-> n, mean |-> m, sd |-> sd, lo |-> b[1], hi |-> b[2]] :
        n \in 0..MaxCount, m \in {Q(1, 2), Q(3, 2)}, sd \in {Zero, Q(1, 4)},
        b \in {<<Zero, One>>, <<Q(1, 4), One>>, <<One, Zero>>}}

\* sample_truncated_normal is about to be called with a seeded generator
InitSampler ==
    /\ pc = "sampler_call"
    /\ args \in SamplerCalls
    /\ result = NoResult
    /\ calls = <<>>
    /\ DEFAULT_RNG = Unset
    /\ NP_RNG = rng_seed(Seed)
    /\ data = NoData
    /\ fitted = <<>>
    /\ rand = <<>>
    /\ it = 0
    /\ societal_results = <<>>
    /\ public_results = <<>>
    /\ csv = NoFile
    /\ runs = <<>>
    /\ proc = 1
    /\ DriversNotRunning

\* the degenerate case looping like the general one
ReturnDegenerate_never ==
    /\ pc = "sampler_call"
    /\ args.sd = Zero
    /\ remaining' = args.n
    /\ out_parts' = <<>>
    /\ pc' = "sampler_loop"
    /\ UNCHANGED <<args, result, calls>>
    /\ UNCHANGED psa_vars
    /\ UNCHANGED <<study, univariate_results, univariate_csv, df, ceac_data>>

\* lines 35-37: sd == 0 returns n copies of the clamped mean
ReturnDegenerate ==
    /\ pc = "sampler_call"
    /\ args.sd = Zero
    /\ result' = SamplerList([k \in 1..args.n |->
                      RMin(RMax(args.mean, args.lo), args.hi)])
    /\ pc' = "sampler_returned"
    /\ UNCHANGED <<args, calls>>
    /\ UNCHANGED psa_vars
    /\ UNCHANGED drv_vars
    /\ UNCHANGED smp_vars

\* lines 38-39
EnterLoop ==
    /\ pc = "sampler_call"
    /\ args.sd # Zero
    /\ remaining' = args.n
    /\ out_parts' = <<>>
    /\ pc' = "sampler_loop"
    /\ UNCHANGED <<args, result, calls>>
    /\ UNCHANGED psa_vars
    /\ UNCHANGED drv_vars

\* lines 40-47: one pass of the while loop; the batch drawn is logged
DrawBatch ==
    /\ pc = "sampler_loop"
    /\ remaining > 0
    /\ Len(calls) < MaxBatches
    /\ LET batch == IMax(remaining, MinBatch)
       IN  /\ \E samples \in [1..batch -> NormalValues(args.mean, args.sd)] :
                  LET accepted == accepted_of(samples, args.lo, args.hi)
                      take == IMin(remaining, Len(accepted))
                  IN  /\ calls' = Append(calls, [batch |-> batch,
                                                 samples |-> samples])
                      /\ IF Len(accepted) > 0
                         THEN /\ out_parts' =
                                     Append(out_parts, SubSeq(accepted, 1, take))
                              /\ remaining' = remaining - take
                         ELSE UNCHANGED <<out_parts, remaining>>
           /\ NP_RNG' = rng_after(NP_RNG, batch)
    /\ UNCHANGED <<pc, args, result, DEFAULT_RNG, data, fitted, rand, it,
                   societal_results, public_results, csv, runs, proc>>
    /\ UNCHANGED drv_vars

\* line 48: np.concatenate raises ValueError for an empty list of parts
ReturnConcatenated ==
    /\ pc = "sampler_loop"
    /\ ~(remaining > 0)
    /\ IF out_parts = <<>>
       THEN /\ result' = SamplerRaise
            /\ pc' = "sampler_raised"
       ELSE /\ result' = SamplerList(concatenate(out_parts))
            /\ pc' = "sampler_returned"
    /\ UNCHANGED <<args, calls>>
    /\ UNCHANGED psa_vars
    /\ UNCHANGED drv_vars
    /\ UNCHANGED smp_vars

NextSampler ==
    \/ ReturnDegenerate
    \/ EnterLoop
    \/ DrawBatch
    \/ ReturnConcatenated

SpecSampler == InitSampler /\ [][NextSampler]_vars

----------------------------------------------------------------------------
(* util/core.py: calculate_discounted_yll, as util/data_enricher.py calls  *)
(* it on every row of the scalar table.                                    *)

MaxYears == 3       \* largest life_expectancy_floor

\* x ** k for an integer k and x # 0
RECURSIVE pow(_, _)
pow(x, k) ==
    IF k = 0 THEN One
    ELSE IF k < 0 THEN RDiv(One, pow(x, -k))
    ELSE RMul(x, pow(x, k - 1))

\* sum(base ** t for t in range(n))
RECURSIVE sum_discounts_upto(_, _)
sum_discounts_upto(base, n) ==
    IF n <= 0 THEN Zero
    ELSE RAdd(sum_discounts_upto(base, n - 1), pow(base, n - 1))

\* the sum starting one year late
calculate_discounted_yll_from_one(discount_rate, years, final_year_factor) ==
    LET base == RDiv(One, RAdd(One, discount_rate))
        sum_discounts == IF years > 0
                         THEN RSub(sum_discounts_upto(base, years + 1), One)
                         ELSE Zero
        final_discount == pow(base, years)
    IN  RAdd(sum_discounts, RMul(final_discount, final_year_factor))

calculate_discounted_yll(discount_rate, years, final_year_factor) ==
    LET base == RDiv(One, RAdd(One, discount_rate))
        sum_discounts == IF years > 0
                         THEN sum_discounts_upto(base, years)
                         ELSE Zero
        final_discount == pow(base, years)
    IN  RAdd(sum_discounts, RMul(final_discount, final_year_factor))

\* the rows of discount_rate, life_expectancy_floor and
\* life_expectancy_last_year_remainder the function is applied to
YllCalls ==
    {[discount_rate |-> r, years |-> y, final_year_factor |-> f] :
        r \in {Q(-1, 2), Zero, Q(1, 4), One},
        y \in (-1)..MaxYears,
        f \in {Zero, Q(1, 4), Q(1, 2), Q(3, 4), One}}

InitYll ==
    /\ pc = "yll_call"
    /\ args \in YllCalls
    /\ result = NoResult
    /\ calls = <<>>
    /\ DEFAULT_RNG = Unset
    /\ NP_RNG = Unset
    /\ data = NoData
    /\ fitted = <<>>
    /\ rand = <<>>
    /\ it = 0
    /\ societal_results = <<>>
    /\ public_results = <<>>
    /\ csv = NoFile
    /\ runs = <<>>
    /\ proc = 1
    /\ DriversNotRunning

\* data_enricher.py lines 27-34: one row gets its discounted_yll
CallCalculateDiscountedYll ==
    /\ pc = "yll_call"
    /\ result' = [status |-> "ok",
                  discounted_yll |-> calculate_discounted_yll(args.discount_rate, args.years, args.final_year_factor)]
    /\ pc' = "yll_returned"
    /\ UNCHANGED <<args, calls>>
    /\ UNCHANGED psa_vars
    /\ UNCHANGED <<study, univariate_results, univariate_csv, df, ceac_data>>
    /\ UNCHANGED smp_vars

NextYll == CallCalculateDiscountedYll

SpecYll == InitYll /\ [][NextYll]_vars

----------------------------------------------------------------------------
(* psa.py and stat_tools/sampling.py: one sampled proportion, with the     *)
(* parameters fit_lognormal returns and the variate sample_lognormal       *)
(* computes from them.  random.gauss(mu, sigma) is mu + sigma * s for a    *)
(* standard score s; the generator can give any score of a bounded range.  *)

MaxScore == 3       \* largest standard score drawn, in absolute value

StandardScores == {I(k) : k \in (-MaxScore)..MaxScore}

\* r.gauss(mu, sigma) for the standard score s
gauss(mu, sigma, s) == RAdd(mu, RMul(sigma, s))

\* math.exp(r.gauss(mu, sigma))
lognormal_variate(mu, sigma, s) == math_exp(gauss(mu, sigma, s))

\* a proportion of the per-subgroup table and its confidence bounds
ProportionValues ==
    {LogZero, LogNum(1, I(-3)), LogNum(1, I(-2)), LogNum(1, I(-1)),
     LogNum(1, Q(-1, 2)), LogNum(1, Zero)}

ProportionRows ==
    {[mean |-> m, lower |-> l, upper |-> u] :
        m \in ProportionValues, l \in ProportionValues, u \in ProportionValues}

InitProportionDraw ==
    /\ pc = "proportion_fit"
    /\ args \in ProportionRows
    /\ result = NoResult
    /\ calls = <<>>
    /\ DEFAULT_RNG = Unset
    /\ NP_RNG = Unset
    /\ data = NoData
    /\ fitted = <<>>
    /\ rand = <<>>
    /\ it = 0
    /\ societal_results = <<>>
    /\ public_results = <<>>
    /\ csv = NoFile
    /\ runs = <<>>
    /\ proc = 1
    /\ DriversNotRunning

\* psa.py lines 102-117: the proportion's lognormal is fitted; a ValueError
\* leaves main()
FitProportion ==
    /\ pc = "proportion_fit"
    /\ fitted' = fit_lognormal_mu_sigma(args.mean, args.lower, args.upper)
    /\ pc' = IF fitted'.raised THEN "proportion_failed" ELSE "proportion_sample"
    /\ UNCHANGED <<args, result, calls, DEFAULT_RNG, NP_RNG, data, rand, it,
                   societal_results, public_results, csv, runs, proc>>
    /\ UNCHANGED drv_vars
    /\ UNCHANGED smp_vars

\* psa.py lines 159-166: sample_lognormal(1, mu, sigma, rng=DEFAULT_RNG)[0]
DrawProportion ==
    /\ pc = "proportion_sample"
    /\ \E s \in StandardScores :
           result' = [status |-> "ok",
                      value |-> lognormal_variate(fitted.mu, fitted.sigma, s)]
    /\ pc' = "proportion_drawn"
    /\ UNCHANGED <<args, calls>>
    /\ UNCHANGED psa_vars
    /\ UNCHANGED drv_vars
    /\ UNCHANGED smp_vars

NextProportionDraw ==
    \/ FitProportion
    \/ DrawProportion

SpecProportionDraw == InitProportionDraw /\ [][NextProportionDraw]_vars

\* a PSA run, its proportions drawn as three-point stand-ins or exactly
InitPsaDomains == InitPSA \/ InitProportionDraw

NextPsaDomains == NextPSA \/ NextProportionDraw

SpecPsaDomains == InitPsaDomains /\ [][NextPsaDomains]_vars

----------------------------------------------------------------------------
(* Claims about run_scenario.  The operators below restate the claimed     *)
(* formulas on their own; they are compared with what the call returned.   *)

SameLengths(a) == \A k \in 1..14 : Len(seqs(a)[k]) = Len(a.population_proportions)

NSub(a) == Len(a.population_proportions)

RECURSIVE SigmaR(_, _, _)
SigmaR(f(_), lo, hi) == IF lo > hi THEN Zero ELSE RAdd(f(lo), SigmaR(f, lo + 1, hi))

ProportionSum(a) ==
    LET p(i) == a.population_proportions[i] IN SigmaR(p, 1, NSub(a))

SumInTolerance(a) ==
    LET t == ProportionSum(a)
    IN  999 * t[2] <= 1000 * t[1] /\ 1000 * t[1] <= 1001 * t[2]

ValidInput(a) == SameLengths(a) /\ SumInTolerance(a) /\ a.days_in_year[1] > 0

\* claimed cost of a population pop of subgroup i under effectiveness he, me
ClaimedCost(a, i, pop, he, me) ==
    LET inpatient ==
            RAdd(a.inpatient_costs[i], RAdd(a.inpatient_pcr_costs[i],
            RAdd(a.inpatient_transport_costs[i],
            RAdd(a.inpatient_caregiver_salary_losses[i], a.outpatient_ec_costs[i]))))
        outpatient ==
            RAdd(a.outpatient_pc_costs[i], RAdd(a.outpatient_transport_costs[i],
                 a.outpatient_caregiver_salary_losses[i]))
    IN  RMul(pop,
             RAdd(RMul(RMul(a.hosp_proportions[i], RSub(One, he)), inpatient),
                  RMul(RMul(a.outpatient_proportions[i], RSub(One, me)), outpatient)))

\* claimed DALYs: hosp_cure*severe_dw*dur + hosp_death*severe_dw*dur
\*                + hosp_death*discounted_yll + outpatient_cases*moderate_dw*dur
ClaimedDalys(a, i, pop, he, me) ==
    LET hosp == RMul(pop, RMul(a.hosp_proportions[i], RSub(One, he)))
        death == RMul(hosp, a.lethality_proportions[i])
        cure == RSub(hosp, death)
        outp == RMul(pop, RMul(a.outpatient_proportions[i], RSub(One, me)))
        sdur == RDiv(a.severe_illness_duration_days, a.days_in_year)
        mdur == RDiv(a.moderate_illness_duration_days, a.days_in_year)
    IN  RAdd(RAdd(RMul(cure, RMul(a.severe_case_dw, sdur)),
                  RMul(death, RMul(a.severe_case_dw, sdur))),
             RAdd(RMul(death, a.discounted_yll),
                  RMul(outp, RMul(a.moderate_case_dw, mdur))))

TreatedShare(a, i) == RMul(RMul(a.cohort, a.population_proportions[i]), a.coverage)

UntreatedShare(a, i) ==
    RMul(RMul(a.cohort, a.population_proportions[i]), RSub(One, a.coverage))

ExpectedCost(a) ==
    LET term(i) ==
            RAdd(ClaimedCost(a, i, TreatedShare(a, i),
                             a.hosp_reduction_effs[i], a.malrti_reduction_effs[i]),
                 ClaimedCost(a, i, UntreatedShare(a, i), Zero, Zero))
    IN  RAdd(SigmaR(term, 1, NSub(a)),
             RMul(a.cohort, RMul(a.coverage, a.intervention_dose_cost)))

ExpectedDalys(a) ==
    LET term(i) ==
            RAdd(ClaimedDalys(a, i, TreatedShare(a, i),
                              a.hosp_reduction_effs[i], a.malrti_reduction_effs[i]),
                 ClaimedDalys(a, i, UntreatedShare(a, i), Zero, Zero))
    IN  SigmaR(term, 1, NSub(a))

\* C1: for every valid input with n >= 1 subgroups the call returns
\* cost = sum over the subgroups of (treated cost with the subgroup's
\* effectiveness + untreated cost with effectiveness 0) + cohort * coverage *
\* dose cost, and dalys = the same sum of the subgroup DALY formula; on the
\* end-to-end example the cost is exactly 44000 (and the DALYs 1853/1461).
C1_CostAndDalysFormula ==
    (pc = "done" /\ ValidInput(args) /\ NSub(args) >= 1) =>
        /\ result = Return(ExpectedCost(args), ExpectedDalys(args))
        /\ args = ExampleArgs => result = Return(I(44000), Q(1853, 1461))

C1_Witness ==
    /\ pc = "done"
    /\ args = ExampleArgs
    /\ result.status = "ok"
    /\ result.cost = I(44000)

\* C2: when all 14 sequences are empty the call returns exactly
\* {cost: cohort * coverage * dose cost, dalys: 0} and raises nothing: the
\* proportion-sum check (and every later check) is not applied.
C2_EmptyReturnsDoseCostOnly ==
    (pc = "done" /\ \A k \in 1..14 : seqs(args)[k] = <<>>) =>
        /\ result.status = "ok"
        /\ result.cost = RMul(RMul(args.cohort, args.coverage),
                              args.intervention_dose_cost)
        /\ result.dalys = Zero

C2_Witness ==
    /\ pc = "done"
    /\ \A k \in 1..14 : seqs(args)[k] = <<>>
    /\ result = Return(I(40000), Zero)

\* C3: the call raises ValueError, and returns nothing, whenever the 14
\* sequences do not all have the same length, whichever sequence differs.
C3_MismatchRaises ==
    (pc = "done" /\ ~SameLengths(args)) => result = Raise("lengths")

C3_Witness ==
    /\ pc = "done"
    /\ Len(args.malrti_reduction_effs) > Len(args.population_proportions)
    /\ \A k \in 1..13 : Len(seqs(args)[k]) = Len(args.population_proportions)
    /\ SumInTolerance(args)
    /\ result.status = "ValueError"

\* C4 as claimed: for n >= 1 equal-length sequences the call raises a
\* validation error if and only if the proportion sum is outside
\* [0.999, 1.001].
C4_Original ==
    (pc = "done" /\ SameLengths(args) /\ NSub(args) >= 1) =>
        (result.status = "ValueError" <=> ~SumInTolerance(args))

\* C4 as amended: for n >= 1 equal-length sequences and days_in_year > 0 the
\* call raises a validation error if and only if the proportion sum is
\* outside [0.999, 1.001] (a sum of 1.002 raises, a sum of 1.0009 returns a
\* result); with days_in_year <= 0 it raises whatever the sum is.
C4_SumToleranceIff ==
    (pc = "done" /\ SameLengths(args) /\ NSub(args) >= 1) =>
        /\ args.days_in_year[1] > 0 =>
              /\ result.status = "ValueError" <=> ~SumInTolerance(args)
              /\ result.status = "ok" <=> SumInTolerance(args)
              /\ ProportionSum(args) = Q(1002, 1000) => result = Raise("proportions")
              /\ ProportionSum(args) = Q(10009, 10000) => result.status = "ok"
        /\ args.days_in_year[1] <= 0 => result.status = "ValueError"

C4_Witness ==
    /\ pc = "done"
    /\ NSub(args) = 2
    /\ SameLengths(args)
    /\ ProportionSum(args) = Q(10009, 10000)
    /\ result.status = "ok"

\* C5 as claimed: the call raises a validation error for every call with
\* days_in_year <= 0, whatever the other inputs are, zero subgroups included.
C5_NonPositiveDaysRaises ==
    (pc = "done" /\ args.days_in_year[1] <= 0) => result.status = "ValueError"

\* C6: the returned cost and DALYs are affine in coverage:
\* result(c) = (1 - c) * result(coverage = 0) + c * result(coverage = 1).
C6_AffineInCoverage ==
    (pc = "done" /\ result.status = "ok") =>
        LET r0 == run_scenario([args EXCEPT !.coverage = Zero])
            r1 == run_scenario([args EXCEPT !.coverage = One])
            c == args.coverage
        IN  /\ r0.status = "ok"
            /\ r1.status = "ok"
            /\ result.cost = RAdd(RMul(RSub(One, c), r0.cost), RMul(c, r1.cost))
            /\ result.dalys = RAdd(RMul(RSub(One, c), r0.dalys), RMul(c, r1.dalys))

C6_Witness ==
    /\ pc = "done"
    /\ result.status = "ok"
    /\ args.coverage = Q(1, 4)
    /\ NSub(args) = 2
    /\ args.hosp_reduction_effs[2] # Zero
    /\ run_scenario([args EXCEPT !.coverage = Zero]).cost
           # run_scenario([args EXCEPT !.coverage = One]).cost

----------------------------------------------------------------------------
(* Claims about the PSA driver.  calls[1..4] are the societal nirsevimab,  *)
(* societal vaccine, public nirsevimab and public vaccine calls of the     *)
(* current iteration.                                                      *)

SalaryFields == {"inpatient_caregiver_salary_losses",
                 "outpatient_caregiver_salary_losses"}

\* the public-payer call p got what the societal call q got, except for the
\* caregiver salary losses, which are zero in it
PublicMirrorsSocietal(p, q) ==
    /\ p.coverage = q.coverage
    /\ p.intervention_dose_cost = q.intervention_dose_cost
    /\ p.hosp_reduction_effs = q.hosp_reduction_effs
    /\ p.malrti_reduction_effs = q.malrti_reduction_effs
    /\ \A fld \in DOMAIN p \ SalaryFields : p[fld] = q[fld]
    /\ \A fld \in SalaryFields : \A i \in DOMAIN p[fld] : p[fld][i] = Zero

\* C8 as claimed: in every iteration, for each intervention, the societal and
\* the public-payer call receive identical coverage, dose cost and
\* hospitalization / MALRTI effectiveness; they differ only in the caregiver
\* salary losses, which are zero in the public-payer call.
C8_PerspectivesShareInputs ==
    /\ Len(calls) >= 3 => PublicMirrorsSocietal(calls[3].args, calls[1].args)
    /\ Len(calls) >= 4 => PublicMirrorsSocietal(calls[4].args, calls[2].args)

SharedDrawsPassed(a) ==
    /\ a.hosp_proportions = rand.rand_hosp_proportions
    /\ a.outpatient_proportions = rand.rand_outpatient_proportions
    /\ a.inpatient_costs = rand.rand_inpatient_costs
    /\ a.outpatient_ec_costs = rand.rand_outpatient_ec_costs
    /\ a.outpatient_pc_costs = rand.rand_outpatient_pc_costs

\* the salary losses computed from the iteration's one salary draw
SalaryDrawPassed(a) ==
    /\ a.inpatient_caregiver_salary_losses =
           [i \in 1..data.n_sub |->
               RMul(RMul(data.severe_illness_duration_days,
                         data.affected_caregivers_proportions[i]),
                    rand.caregiver_daily_salary_draws[i])]
    /\ a.outpatient_caregiver_salary_losses =
           [i \in 1..data.n_sub |->
               RMul(RMul(data.moderate_illness_duration_days,
                         data.affected_caregivers_proportions[i]),
                    rand.caregiver_daily_salary_draws[i])]

InCalls == pc \in {"societal_nirsevimab", "societal_vaccine",
                   "public_nirsevimab", "public_vaccine"}

\* C9 as claimed: every shared uncertain parameter, the caregiver salary
\* included, is drawn once and that draw is passed to all four calls.
C9_Original ==
    \A k \in 1..Len(calls) :
        SharedDrawsPassed(calls[k].args) /\ SalaryDrawPassed(calls[k].args)

\* C9 as amended: in every iteration the hospitalization and outpatient
\* proportions and the inpatient, emergency-care and primary-care costs are
\* drawn once and the same draws are passed to all four calls; the caregiver
\* salary is drawn once and its salary losses are passed to the two societal
\* calls, the two public-payer calls get zeros; no draw is taken between the
\* four calls.
C9_SharedDrawsReused ==
    /\ [](\A k \in 1..Len(calls) :
             /\ SharedDrawsPassed(calls[k].args)
             /\ k <= 2 => SalaryDrawPassed(calls[k].args)
             /\ k >= 3 => \A fld \in SalaryFields :
                              calls[k].args[fld] = [i \in 1..data.n_sub |-> Zero])
    /\ [][InCalls => /\ DEFAULT_RNG' = DEFAULT_RNG
                     /\ NP_RNG' = NP_RNG
                     /\ rand' = rand]_vars
    /\ [][pc = "loop" /\ pc' = "societal_nirsevimab" =>
             \E e \in 0..(2 * data.n_sub) :
                 DEFAULT_RNG' = rng_after(DEFAULT_RNG, 2 + 6 * data.n_sub + e)]_vars

C9_Witness ==
    /\ pc = "append"
    /\ Len(calls) = 4
    /\ it = 1
    /\ data.n_sub = 2
    /\ rand.rand_hosp_proportions # data.hosp_proportions
    /\ calls[4].args.hosp_proportions = calls[1].args.hosp_proportions
    /\ calls[1].args.inpatient_caregiver_salary_losses[1] # Zero

\* C10 as claimed: two PSA runs with the same seed and the same input data
\* produce identical public and societal sample sets, pair by pair, in
\* separate processes or one after the other in the same process.
C10_SameSeedSameSamples ==
    \A i, j \in 1..Len(runs) :
        /\ runs[i].public = runs[j].public
        /\ runs[i].societal = runs[j].societal

\* what does hold of the code: two runs in separate processes agree, each
\* starting from freshly seeded generators
SeparateProcessesAgree ==
    \A i, j \in 1..Len(runs) :
        runs[i].proc # runs[j].proc =>
            /\ runs[i].public = runs[j].public
            /\ runs[i].societal = runs[j].societal

\* the claimed pair of a nirsevimab and a vaccine result
ClaimedPair(nirsevimab, vaccine) ==
    [incremental_cost |-> RSub(nirsevimab.cost, vaccine.cost),
     incremental_dalys |-> RSub(vaccine.dalys, nirsevimab.dalys)]

\* call k of the iteration evaluated this iteration's draws, for the arm and
\* the perspective of its place in the iteration
CallOfIteration(k) ==
    LET a == calls[k].args
    IN  /\ a.hosp_proportions = rand.rand_hosp_proportions
        /\ a.inpatient_costs = rand.rand_inpatient_costs
        /\ a.intervention_dose_cost =
               (IF k \in {1, 3} THEN data.nirsevimab_dose_cost
                ELSE data.vaccine_dose_cost)
        /\ (a.inpatient_caregiver_salary_losses = [i \in 1..data.n_sub |-> Zero])
               <=> k \in {3, 4}

\* C11: for each perspective the pair an iteration records is
\* incremental-cost = cost(nirsevimab) - cost(vaccine) and incremental-dalys =
\* dalys(vaccine) - dalys(nirsevimab), taken from the run_scenario results of
\* that iteration and that perspective.
C11_PairsFromSameIteration ==
    (pc \in {"loop", "finished"} /\ Len(calls) = 4) =>
        /\ \A k \in 1..4 : CallOfIteration(k)
        /\ societal_results[it] = ClaimedPair(calls[1].result, calls[2].result)
        /\ public_results[it] = ClaimedPair(calls[3].result, calls[4].result)

C11_Witness ==
    /\ pc = "loop"
    /\ it = 2
    /\ Len(calls) = 4
    /\ societal_results[2] # societal_results[1]
    /\ societal_results[2].incremental_cost # public_results[2].incremental_cost
    /\ societal_results[2].incremental_dalys # Zero

Fitting == pc \in {"start", "imported"}

Sampled == pc \in {"societal_nirsevimab", "societal_vaccine", "public_nirsevimab",
                   "public_vaccine", "append"}

NonzeroCount(effs) == Cardinality({i \in DOMAIN effs : effs[i] # Zero})

\* the sampling step of an iteration
SampleStep == pc = "loop" /\ pc' = "societal_nirsevimab"

\* C12: a subgroup whose baseline nirsevimab effectiveness (hospitalization,
\* MALRTI) is 0 is not fitted and not sampled: its effectiveness passed to
\* run_scenario is exactly 0 in every iteration and no draw is consumed for
\* it, and every subgroup with nonzero baseline effectiveness gets exactly one
\* Beta draw per iteration.
C12_ZeroEffectivenessNotSampled ==
    /\ [](\A i \in 1..data.n_sub :
            LET h0 == data.nirsevimab_hosp_reduction_effs[i] = Zero
                m0 == data.nirsevimab_malrti_reduction_effs[i] = Zero
            IN  /\ ~Fitting =>
                      /\ h0 <=> fitted.nirsevimab_hosp_reduction[i] = None
                      /\ m0 <=> fitted.nirsevimab_malrti_reduction[i] = None
                /\ Sampled =>
                      /\ h0 => rand.rand_nirsevimab_hosp_reduction_effs[i] = Zero
                      /\ m0 => rand.rand_nirsevimab_malrti_reduction_effs[i] = Zero
                      /\ ~h0 => rand.rand_nirsevimab_hosp_reduction_effs[i] \in
                                  {data.nirsevimab_hosp_reduction_effs[i],
                                   data.nirsevimab_hosp_reduction_eff_ci95_lowers[i],
                                   data.nirsevimab_hosp_reduction_eff_ci95_uppers[i]}
                /\ \A k \in 1..Len(calls) :
                      (Sampled /\ k \in {1, 3}) =>
                          /\ h0 => calls[k].args.hosp_reduction_effs[i] = Zero
                          /\ m0 => calls[k].args.malrti_reduction_effs[i] = Zero)
    /\ [][SampleStep =>
             DEFAULT_RNG' = rng_after(DEFAULT_RNG,
                 2 + 6 * data.n_sub
                   + NonzeroCount(data.nirsevimab_hosp_reduction_effs)
                   + NonzeroCount(data.nirsevimab_malrti_reduction_effs))]_vars

C12_Witness ==
    /\ pc = "append"
    /\ data.n_sub = 2
    /\ data.nirsevimab_hosp_reduction_effs[1] # Zero
    /\ data.nirsevimab_hosp_reduction_effs[2] = Zero
    /\ calls[1].args.hosp_reduction_effs[2] = Zero
    /\ calls[1].args.hosp_reduction_effs[1] # data.nirsevimab_hosp_reduction_effs[1]
    /\ DEFAULT_RNG = rng_after(rng_seed(Seed), 2 + 6 * 2 + 1 + 1)

\* C13: during a PSA run the public and the societal sample sets are
\* append-only and grow in lockstep by exactly one pair per iteration (equal
\* lengths at every iteration boundary, earlier pairs never changed), and a
\* completed run exposes exactly N pairs in each set.
C13_AppendOnlyLockstep ==
    /\ [](/\ Len(societal_results) = Len(public_results)
          /\ ~Fitting => Len(societal_results) = it
          /\ pc = "finished" =>
                /\ Len(societal_results) = N
                /\ csv = [written |-> TRUE, public |-> public_results,
                          societal |-> societal_results])
    /\ [][pc # "imported" =>
             \/ /\ societal_results' = societal_results
                /\ public_results' = public_results
             \/ /\ pc = "append"
                /\ Len(societal_results') = Len(societal_results) + 1
                /\ Len(public_results') = Len(public_results) + 1
                /\ SubSeq(societal_results', 1, Len(societal_results))
                       = societal_results
                /\ SubSeq(public_results', 1, Len(public_results))
                       = public_results]_vars

C13_Witness ==
    /\ pc = "finished"
    /\ Len(runs) = 1
    /\ Len(csv.public) = N
    /\ Len(csv.societal) = N
    /\ csv.public[1] # csv.societal[1]

\* C14 as claimed: a PSA run either completes all N iterations or fails on a
\* fitting / validation error raised before the sampling loop starts; no
\* validation error is first raised inside the loop.
C14_FailsOnlyBeforeLoop ==
    pc = "failed" => (calls = <<>> /\ result = NoResult)

\* value number (s % 3) + 1 of lo, mean, hi: what a generator in state s yields
DrawnAt(lo, mean, hi, s) == <<lo, mean, hi>>[(s % 3) + 1]

\* C16 as claimed: all random draws of a run come from one single shared
\* seeded stream: the draws of an iteration consume one generator only.
C16_SingleStream ==
    [][SampleStep => (NP_RNG' = NP_RNG \/ DEFAULT_RNG' = DEFAULT_RNG)]_vars

\* C16 as amended: the draws of a run come from two generators, each seeded
\* with 42 when psa.py is loaded and each advancing deterministically from
\* draw to draw: the disability weights, proportions, costs, salaries and
\* effectiveness values are consecutive draws of DEFAULT_RNG, the coverage is
\* the one draw per iteration of NP_RNG; nothing else moves a generator.
C16_TwoSeededStreams ==
    /\ []((pc = "imported" /\ runs = <<>>) =>
             (DEFAULT_RNG = Seed /\ NP_RNG = Seed))
    /\ [][SampleStep =>
             LET n == data.n_sub
                 at(k) == rng_after(DEFAULT_RNG, k)
                 e == NonzeroCount(data.nirsevimab_hosp_reduction_effs)
                      + NonzeroCount(data.nirsevimab_malrti_reduction_effs)
             IN  /\ DEFAULT_RNG' = at(2 + 6 * n + e)
                 /\ NP_RNG' = rng_next(NP_RNG)
                 /\ rand'.rand_nirsevimab_coverage =
                        DrawnAt(data.nirsevimab_min_expected_coverage,
                                data.nirsevimab_coverage,
                                data.nirsevimab_max_expected_coverage, NP_RNG')
                 /\ rand'.moderate_case_dw =
                        DrawnAt(data.moderate_case_dw_ci95_lower,
                                data.moderate_case_dw,
                                data.moderate_case_dw_ci95_upper, at(1))
                 /\ rand'.severe_case_dw =
                        DrawnAt(data.severe_case_dw_ci95_lower, data.severe_case_dw,
                                data.severe_case_dw_ci95_upper, at(2))
                 /\ \A i \in 1..n :
                        /\ rand'.rand_hosp_proportions[i] =
                               DrawnAt(data.hosp_proportion_ci95_lowers[i],
                                       data.hosp_proportions[i],
                                       data.hosp_proportion_ci95_uppers[i], at(2 + i))
                        /\ rand'.rand_outpatient_proportions[i] =
                               DrawnAt(data.outpatient_proportion_ci95_lowers[i],
                                       data.outpatient_proportions[i],
                                       data.outpatient_proportion_ci95_uppers[i],
                                       at(2 + n + i))
                        /\ rand'.rand_inpatient_costs[i] =
                               DrawnAt(RMul(data.inpatient_costs[i], Q(3, 4)),
                                       data.inpatient_costs[i],
                                       RMul(data.inpatient_costs[i], Q(5, 4)),
                                       at(2 + 2 * n + i))
                        /\ rand'.caregiver_daily_salary_draws[i] =
                               DrawnAt(RMul(data.caregiver_daily_salaries[i], Q(3, 4)),
                                       data.caregiver_daily_salaries[i],
                                       RMul(data.caregiver_daily_salaries[i], Q(5, 4)),
                                       at(2 + 5 * n + i))]_vars
    /\ [][(~SampleStep /\ pc # "start" /\ pc' # "start") =>
             (DEFAULT_RNG' = DEFAULT_RNG /\ NP_RNG' = NP_RNG)]_vars

C16_Witness ==
    /\ pc = "societal_nirsevimab"
    /\ it = 1
    /\ NP_RNG = rng_after(Seed, 2)
    /\ DEFAULT_RNG # NP_RNG
    /\ DEFAULT_RNG = rng_after(Seed, 2 * (2 + 6 * data.n_sub + 2 * data.n_sub))

----------------------------------------------------------------------------
(* Claims about the output files of the two drivers.                       *)

\* a step that writes one of the output files
PsaFileWritten == csv' # csv

UnivariateFileWritten == univariate_csv' # univariate_csv

\* C15: a driver writes its CSV files only after every evaluation has
\* succeeded.  psa.py writes both files in one step, out of the loop, when all
\* N iterations have appended their pair to both lists; univariate.py writes
\* its file when no run_univariate call remains, with the rows of all of them;
\* a step into or out of a failure writes nothing, and a run that fails leaves
\* no file of its own behind.
C15_FilesOnlyAfterEverySuccess ==
    /\ [][PsaFileWritten =>
             /\ pc = "loop" /\ pc' = "finished"
             /\ it = N
             /\ Len(societal_results) = N /\ Len(public_results) = N
             /\ csv' = [written |-> TRUE, public |-> public_results,
                        societal |-> societal_results]]_vars
    /\ [][UnivariateFileWritten =>
             /\ pc = "univariate_main" /\ pc' = "univariate_finished"
             /\ study = <<>>
             /\ calls = <<>> \/ (Len(calls) = 8 /\ \A k \in 1..8 : calls[k].result.status = "ok")
             /\ univariate_csv' = UnivariateFile(univariate_results)]_vars
    /\ [][(pc = "failed" \/ pc' = "failed") =>
             (csv' = csv /\ univariate_csv' = univariate_csv)]_vars
    /\ [](pc = "failed" =>
             /\ univariate_csv = NoFile
             /\ runs = <<>> => csv = NoFile)

\* univariate.py has written the rows of the six studies of its main()
C15_Witness ==
    /\ pc = "univariate_finished"
    /\ univariate_csv.written
    /\ Len(univariate_csv.rows) = Len(main_studies)
    /\ univariate_csv.rows = univariate_results

----------------------------------------------------------------------------
(* Claims about run_univariate.                                            *)

\* the inputs of one arm with every parameter at its baseline value, under
\* the societal perspective
BaselineArgs(dt, arm) ==
    [cohort |-> dt.cohort,
     coverage |-> IF arm = "nirsevimab" THEN dt.nirsevimab_coverage
                  ELSE dt.vaccine_coverage,
     intervention_dose_cost |-> IF arm = "nirsevimab" THEN dt.nirsevimab_dose_cost
                                ELSE dt.vaccine_dose_cost,
     severe_case_dw |-> dt.severe_case_dw,
     moderate_case_dw |-> dt.moderate_case_dw,
     severe_illness_duration_days |-> dt.severe_illness_duration_days,
     moderate_illness_duration_days |-> dt.moderate_illness_duration_days,
     days_in_year |-> DAYS_IN_YEAR,
     discounted_yll |-> dt.discounted_yll,
     population_proportions |-> dt.population_proportions,
     hosp_proportions |-> dt.hosp_proportions,
     outpatient_proportions |-> dt.outpatient_proportions,
     lethality_proportions |-> dt.lethality_proportions,
     inpatient_costs |-> dt.inpatient_costs,
     inpatient_pcr_costs |-> dt.inpatient_pcr_costs,
     outpatient_ec_costs |-> dt.outpatient_ec_costs,
     outpatient_pc_costs |-> dt.outpatient_pc_costs,
     inpatient_transport_costs |-> dt.inpatient_transport_costs,
     inpatient_caregiver_salary_losses |-> inpatient_caregiver_salary_loss(dt),
     outpatient_transport_costs |-> dt.outpatient_transport_costs,
     outpatient_caregiver_salary_losses |-> outpatient_caregiver_salary_loss(dt),
     hosp_reduction_effs |-> IF arm = "nirsevimab"
                             THEN dt.nirsevimab_hosp_reduction_effs
                             ELSE dt.vaccine_hosp_reduction_effs,
     malrti_reduction_effs |-> IF arm = "nirsevimab"
                               THEN dt.nirsevimab_malrti_reduction_effs
                               ELSE dt.vaccine_malrti_reduction_effs]

Times(column, factor) == [i \in DOMAIN column |-> RMul(column[i], factor)]

\* the claimed inputs of the evaluation of one bound, perspective and arm:
\* the baseline inputs with the parameter under study at bound b, the
\* caregiver salary losses being zero under the public-payer perspective
ClaimedArgs(dt, st, b, perspective, arm) ==
    LET base == BaselineArgs(dt, arm)
        given(x) == x # NotGiven
        n_only(x) == arm = "nirsevimab" /\ given(x)
    IN  [base EXCEPT
            !.coverage = IF n_only(st.n_coverage) THEN st.n_coverage[b] ELSE @,
            !.hosp_proportions =
                IF given(st.hosp_proportions) THEN st.hosp_proportions[b] ELSE @,
            !.outpatient_proportions =
                IF given(st.outpatient_proportions)
                THEN st.outpatient_proportions[b] ELSE @,
            !.inpatient_costs =
                IF given(st.inpatient_costs_factors)
                THEN Times(@, st.inpatient_costs_factors[b]) ELSE @,
            !.outpatient_ec_costs =
                IF given(st.outpatient_ec_costs_factors)
                THEN Times(@, st.outpatient_ec_costs_factors[b]) ELSE @,
            !.outpatient_pc_costs =
                IF given(st.outpatient_pc_costs_factors)
                THEN Times(@, st.outpatient_pc_costs_factors[b]) ELSE @,
            !.inpatient_caregiver_salary_losses =
                IF perspective = "phs" THEN zeros(dt.n_sub)
                ELSE IF given(st.inpatient_caregiver_salary_losses_factors)
                THEN Times(@, st.inpatient_caregiver_salary_losses_factors[b])
                ELSE @,
            !.outpatient_caregiver_salary_losses =
                IF perspective = "phs" THEN zeros(dt.n_sub)
                ELSE IF given(st.outpatient_caregiver_salary_losses_factors)
                THEN Times(@, st.outpatient_caregiver_salary_losses_factors[b])
                ELSE @,
            !.hosp_reduction_effs =
                IF n_only(st.n_hosp_reduction_effs)
                THEN st.n_hosp_reduction_effs[b] ELSE @,
            !.malrti_reduction_effs =
                IF n_only(st.n_malrti_reduction_effs)
                THEN st.n_malrti_reduction_effs[b] ELSE @]

\* run_univariate has made its eight evaluations and is about to return
AllEvaluated == pc = "run_univariate" /\ Len(calls) = 8

\* the evaluation of bound b, perspective and arm in the log of the calls
EvaluationOf(b, perspective, arm) ==
    calls[(IF perspective = "soc" THEN 0 ELSE 4) + 2 * (b - 1)
          + (IF arm = "nirsevimab" THEN 1 ELSE 2)]

\* the ICER of bound b and perspective, from the logged results
ClaimedIcer(b, perspective) ==
    LET nirsevimab == EvaluationOf(b, perspective, "nirsevimab").result
        vaccine == EvaluationOf(b, perspective, "vaccine").result
    IN  float64_div(RSub(nirsevimab.cost, vaccine.cost),
                    RSub(vaccine.dalys, nirsevimab.dalys))

\* C17: run_univariate returns exactly four ICERs, each the cost difference
\* nirsevimab - vaccine over the DALY difference vaccine - nirsevimab; the lo
\* ICERs are computed with the bound of index 0 and the hi ICERs with the
\* bound of index 1 of the parameter under study, in both perspectives and
\* both arms, and every input that is not overridden is at its baseline
\* value.
C17_FourIcersAtBounds ==
    AllEvaluated =>
        LET row == univariate_row(Head(study), calls)
        IN  /\ DOMAIN row = {"param_name", "icer_soc_lo", "icer_soc_hi",
                             "icer_phs_lo", "icer_phs_hi"}
            /\ row.icer_soc_lo = ClaimedIcer(1, "soc")
            /\ row.icer_soc_hi = ClaimedIcer(2, "soc")
            /\ row.icer_phs_lo = ClaimedIcer(1, "phs")
            /\ row.icer_phs_hi = ClaimedIcer(2, "phs")
            /\ \A b \in {1, 2} : \A perspective \in {"soc", "phs"} :
                   \A arm \in {"nirsevimab", "vaccine"} :
                       EvaluationOf(b, perspective, arm).args =
                           ClaimedArgs(data, Head(study), b, perspective, arm)

\* the four societal evaluations are made with the claimed inputs
SocietalEvaluationsAtBounds ==
    AllEvaluated =>
        \A b \in {1, 2} : \A arm \in {"nirsevimab", "vaccine"} :
            EvaluationOf(b, "soc", arm).args =
                ClaimedArgs(data, Head(study), b, "soc", arm)

\* the DALYs of the two arms are equal for bound b and perspective
EqualDalys(b, perspective) ==
    EvaluationOf(b, perspective, "vaccine").result.dalys =
        EvaluationOf(b, perspective, "nirsevimab").result.dalys

\* the ICER of bound b and perspective in a row
IcerOf(row, b, perspective) ==
    IF perspective = "soc"
    THEN (IF b = 1 THEN row.icer_soc_lo ELSE row.icer_soc_hi)
    ELSE (IF b = 1 THEN row.icer_phs_lo ELSE row.icer_phs_hi)

\* C18: when the vaccine DALYs equal the nirsevimab DALYs for some bound and
\* perspective, run_univariate does not raise: its row is returned and
\* appended, that ICER is infinite or NaN, and every ICER whose DALY
\* difference is not zero is still the quotient of its two differences.
C18_EqualDalysGiveInfOrNan ==
    [][AllEvaluated =>
          /\ pc' = "univariate_main"
          /\ Len(univariate_results') = Len(univariate_results) + 1
          /\ LET row == univariate_results'[Len(univariate_results')]
             IN  \A b \in {1, 2} : \A perspective \in {"soc", "phs"} :
                     LET nirsevimab == EvaluationOf(b, perspective, "nirsevimab").result
                         vaccine == EvaluationOf(b, perspective, "vaccine").result
                     IN  IF EqualDalys(b, perspective)
                         THEN IcerOf(row, b, perspective).kind \in {"inf", "-inf", "nan"}
                         ELSE IcerOf(row, b, perspective) =
                                  Finite(RSub(nirsevimab.cost, vaccine.cost),
                                         RSub(vaccine.dalys, nirsevimab.dalys))]_vars

\* a returned row with an infinite or NaN ICER next to a finite one
C18_Witness ==
    /\ pc = "univariate_main"
    /\ univariate_results # <<>>
    /\ LET row == univariate_results[Len(univariate_results)]
       IN  /\ row.icer_soc_lo.kind \in {"inf", "-inf", "nan"}
           /\ row.icer_soc_hi.kind = "finite"
           /\ row.icer_phs_hi.kind = "finite"

----------------------------------------------------------------------------
(* Claims about ceac.py.                                                   *)

\* a table has been written for the sample set in df
CeacWritten == pc \in {"ceac_societal", "ceac_finished"} /\ ceac_data.written

\* the float quotient cost / dalys of a sample is at most t: a zero divisor
\* gives -inf, inf or nan
RatioAtMost(sample, t) ==
    IF isnan(t) THEN FALSE
    ELSE IF sample.incremental_dalys = Zero THEN RLt(sample.incremental_cost, Zero)
    ELSE RLe(RDiv(sample.incremental_cost, sample.incremental_dalys), t)

\* the fraction of the samples whose ratio is at most t
RatioFraction(d, t) ==
    Q(Cardinality({i \in DOMAIN d : RatioAtMost(d[i], t)}), Len(d))

\* along the grid, a larger threshold never has a smaller probability
MonotoneAlongGrid(table) ==
    \A k \in 1..(GridPoints - 1) :
        /\ float_le(table.threshold[k], table.threshold[k + 1]) =>
               RLe(table.probability[k], table.probability[k + 1])
        /\ float_le(table.threshold[k + 1], table.threshold[k]) =>
               RLe(table.probability[k + 1], table.probability[k])

\* every probability of the table is the fraction of samples whose ratio is
\* at most the threshold
EmpiricalCdfOfRatio(d, table) ==
    \A k \in 1..GridPoints :
        table.probability[k] = RatioFraction(d, table.threshold[k])

NoNegativeDalys(d) == \A i \in DOMAIN d : RLe(Zero, d[i].incremental_dalys)

AllPositiveDalys(d) == \A i \in DOMAIN d : RLt(Zero, d[i].incremental_dalys)

\* C19 as stated: for every PSA sample set the CEAC probability is
\* non-decreasing as the threshold increases along the grid and equals the
\* fraction of samples whose ratio cost / dalys is at most the threshold.
C19_MonotoneCdfOfRatio ==
    CeacWritten =>
        (MonotoneAlongGrid(ceac_data) /\ EmpiricalCdfOfRatio(df, ceac_data))

\* C19 amended: the CEAC probability is non-decreasing in the threshold for
\* every sample set without a negative incremental-dalys value, and it equals
\* the fraction of samples whose ratio is at most the threshold for every
\* sample set whose incremental-dalys values are all positive.
C19_MonotoneForPositiveDalys ==
    CeacWritten =>
        /\ NoNegativeDalys(df) => MonotoneAlongGrid(ceac_data)
        /\ AllPositiveDalys(df) => EmpiricalCdfOfRatio(df, ceac_data)

\* a table over positive incremental-dalys whose probability rises along
\* the grid
C19_Witness ==
    /\ CeacWritten
    /\ AllPositiveDalys(df)
    /\ Len(df) = 2
    /\ RLt(ceac_data.threshold[1], ceac_data.threshold[GridPoints])
    /\ RLt(ceac_data.probability[1], ceac_data.probability[GridPoints])

\* the rows of a sample set whose incremental-dalys is not zero
NonzeroDalysRows(d) == {i \in DOMAIN d : d[i].incremental_dalys # Zero}

\* the largest ratio cost / dalys over the rows with dalys # 0
MaxRatioOverNonzeroDalys(d) ==
    LET ratio(i) == RDiv(d[i].incremental_cost, d[i].incremental_dalys)
        largest == CHOOSE i \in NonzeroDalysRows(d) :
                       \A j \in NonzeroDalysRows(d) : RLe(ratio(j), ratio(i))
    IN  ratio(largest)

\* C20: the grid has 100 points, starts at 0 and ends at 1.1 times the
\* largest ratio incremental-cost / incremental-dalys over exactly the
\* samples with incremental-dalys # 0, wherever the samples with
\* incremental-dalys = 0 stand in the sample set.
C20_GridEndsAtMaxOverNonzeroDalys ==
    (CeacWritten /\ NonzeroDalysRows(df) # {}) =>
        /\ DOMAIN ceac_data.threshold = 1..100
        /\ ceac_data.threshold[1] = Zero
        /\ ceac_data.threshold[100] =
               RMul(MaxRatioOverNonzeroDalys(df), Q(11, 10))

\* the same for the sample sets whose first row has incremental-dalys # 0
GridEndsAtMaxWhenFirstRowNonzero ==
    (CeacWritten /\ 1 \in NonzeroDalysRows(df)) =>
        /\ DOMAIN ceac_data.threshold = 1..100
        /\ ceac_data.threshold[1] = Zero
        /\ ceac_data.threshold[100] =
               RMul(MaxRatioOverNonzeroDalys(df), Q(11, 10))

----------------------------------------------------------------------------
(* Claims about the fitting routines.                                      *)

FitReturned(fn) == pc = "fit_returned" /\ args.fn = fn

FitRaised(fn) == pc = "fit_raised" /\ args.fn = fn

FitDone(fn) == FitReturned(fn) \/ FitRaised(fn)

\* C21: for every accepted input (lo > 0, hi > lo, mean > 0) fit_lognormal
\* returns sigma = (ln(hi) - ln(lo)) / (2 * 1.96) and mu = ln(mean) -
\* sigma^2 / 2, so that the implied mean exp(mu + sigma^2 / 2) is the target
\* mean.
C21_LognormalMeanMatched ==
    (/\ FitDone("fit_lognormal")
     /\ args.lower_target.sign = 1
     /\ ~log_le(args.upper_target, args.lower_target)
     /\ args.mean_target.sign = 1) =>
        /\ pc = "fit_returned"
        /\ result.sigma = RDiv(RSub(args.upper_target.ln, args.lower_target.ln),
                               Q(98, 25))
        /\ result.mu = RSub(args.mean_target.ln,
                            RDiv(RMul(result.sigma, result.sigma), I(2)))
        /\ math_exp(RAdd(result.mu, RDiv(RMul(result.sigma, result.sigma), I(2))))
               = args.mean_target

\* fit_lognormal has returned for a mean that is not the midpoint of the
\* bounds on the log scale
C21_Witness ==
    /\ FitReturned("fit_lognormal")
    /\ args.mean_target = LogNum(1, I(2))
    /\ args.lower_target = LogNum(1, I(-3))
    /\ args.upper_target = LogNum(1, Q(1, 2))

\* the logarithm ln(x) of a positive number, as np.log returns it
Ln(x) == [kind |-> "finite", of |-> x]

\* the float (ln(u) - ln(l)) / d
LnDifferenceOver(u, l, d) ==
    [kind |-> "finite", minuend |-> u, subtrahend |-> l, over |-> d]

\* C22: fit_lognormal_briggs(central, variation) returns mu = ln(central) and
\* sigma = (ln(central * (1 + variation)) - ln(central * (1 - variation)))
\* / (2 * 1.96) wherever these logarithms exist; for central = 100 and
\* variation = 0.25 this is mu = ln(100) and sigma = (ln(125) - ln(75)) / 3.92.
C22_BriggsParameters ==
    /\ (/\ FitDone("fit_lognormal_briggs")
        /\ RLt(Zero, args.central_value)
        /\ RLt(Zero, args.variation) /\ RLt(args.variation, One)) =>
           /\ pc = "fit_returned"
           /\ result.mu = Ln(args.central_value)
           /\ result.sigma =
                  LnDifferenceOver(
                      RMul(args.central_value, RAdd(One, args.variation)),
                      RMul(args.central_value, RSub(One, args.variation)),
                      Q(98, 25))
    /\ (/\ FitDone("fit_lognormal_briggs")
        /\ args.central_value = I(100)
        /\ args.variation = Q(1, 4)) =>
           /\ pc = "fit_returned"
           /\ result.mu = Ln(I(100))
           /\ result.sigma = LnDifferenceOver(I(125), I(75), Q(392, 100))

C22_Witness ==
    /\ FitReturned("fit_lognormal_briggs")
    /\ args.central_value = I(100)
    /\ args.variation = Q(1, 4)
    /\ result.sigma.minuend = I(125)

\* a returned sigma is a finite number greater than 0
FinitePositive(sigma) ==
    sigma.kind = "finite" /\ RLt(sigma.subtrahend, sigma.minuend)

\* C29: whenever fit_lognormal_briggs returns, mu and sigma are finite and
\* sigma > 0; an input whose lower bound central * (1 - variation) is not
\* positive is rejected with a ValueError.
C29_BriggsFiniteOrRejected ==
    FitDone("fit_lognormal_briggs") =>
        /\ pc = "fit_returned" =>
               (result.mu.kind = "finite" /\ FinitePositive(result.sigma))
        /\ RLe(RMul(args.central_value, RSub(One, args.variation)), Zero) =>
               pc = "fit_raised"

\* the same for the variations below 1
BriggsFiniteBelowOne ==
    (FitReturned("fit_lognormal_briggs") /\ RLt(args.variation, One)) =>
        (result.mu.kind = "finite" /\ FinitePositive(result.sigma))

\* the precondition of the routine called is violated
BetaPreconditionViolated ==
    \/ ~(RLt(Zero, args.mean_target) /\ RLt(args.mean_target, One))
    \/ ~(/\ RLt(Zero, args.lower_target)
         /\ RLt(args.lower_target, args.upper_target)
         /\ RLt(args.upper_target, One))

LognormalPreconditionViolated ==
    \/ args.lower_target.sign <= 0
    \/ args.upper_target.sign <= 0
    \/ log_le(args.upper_target, args.lower_target)

BriggsPreconditionViolated ==
    RLe(args.central_value, Zero) \/ RLe(args.variation, Zero)

NormalPreconditionViolated == RLe(args.upper_target, args.lower_target)

\* the call has raised ValueError and returned nothing
RaisedValueError ==
    pc = "fit_raised" /\ result.raised /\ result.kind = "ValueError"

\* C23: each fitting routine raises ValueError and returns no parameters
\* whenever its precondition is violated: fit_beta when mean is not in (0, 1)
\* or not 0 < lo < hi < 1, fit_lognormal when lo <= 0, hi <= 0 or hi <= lo,
\* fit_lognormal_briggs when central <= 0 or variation <= 0, fit_normal when
\* hi <= lo.
C23_PreconditionViolatedRaises ==
    /\ (FitDone("fit_beta") /\ BetaPreconditionViolated) => RaisedValueError
    /\ (FitDone("fit_lognormal") /\ LognormalPreconditionViolated) =>
           RaisedValueError
    /\ (FitDone("fit_lognormal_briggs") /\ BriggsPreconditionViolated) =>
           RaisedValueError
    /\ (FitDone("fit_normal") /\ NormalPreconditionViolated) => RaisedValueError

\* fit_beta has raised for bounds in the wrong order and a valid mean
C23_Witness ==
    /\ FitRaised("fit_beta")
    /\ args.mean_target = Q(1, 2)
    /\ args.lower_target = Q(7, 10)
    /\ args.upper_target = Q(3, 10)
    /\ RaisedValueError

----------------------------------------------------------------------------
(* Claims about sample_truncated_normal.                                   *)

clamp(x, lo, hi) == IF RLe(x, lo) THEN (IF RLe(lo, hi) THEN lo ELSE hi)
                    ELSE IF RLe(x, hi) THEN x ELSE hi

\* C25: with sd == 0 sample_truncated_normal does not enter the rejection
\* loop: it returns at once a list of exactly n copies of
\* min(max(mean, lo), hi) and draws nothing from the generator.
C25_DegenerateReturnsClampedMean ==
    /\ [](args.sd = Zero => pc # "sampler_loop")
    /\ [][(pc = "sampler_call" /\ args.sd = Zero) =>
             /\ pc' = "sampler_returned"
             /\ result'.status = "ok"
             /\ Len(result'.values) = args.n
             /\ \A k \in 1..args.n :
                    result'.values[k] = clamp(args.mean, args.lo, args.hi)
             /\ NP_RNG' = NP_RNG
             /\ calls' = <<>>]_vars

\* two copies of a mean that lies above the interval, clamped to hi
C25_Witness ==
    /\ pc = "sampler_returned"
    /\ args.sd = Zero
    /\ args.n = 2
    /\ args.mean = Q(3, 2)
    /\ result.values = <<One, One>>

\* the variates drawn so far that lie in [lo, hi], in draw order
RECURSIVE AcceptedDraws(_)
AcceptedDraws(log) ==
    IF log = <<>> THEN <<>>
    ELSE AcceptedDraws(SubSeq(log, 1, Len(log) - 1))
             \o accepted_of(log[Len(log)].samples, args.lo, args.hi)

SamplerDone == pc \in {"sampler_returned", "sampler_raised"}

\* the list returned is the first n accepted draws
ReturnsAcceptedDraws ==
    /\ pc = "sampler_returned"
    /\ Len(result.values) = args.n
    /\ \A k \in 1..Len(result.values) :
           RLe(args.lo, result.values[k]) /\ RLe(result.values[k], args.hi)
    /\ Len(AcceptedDraws(calls)) >= args.n
    /\ result.values = SubSeq(AcceptedDraws(calls), 1, args.n)

\* C26: for every n >= 0, sd > 0 and lo <= hi, a call of
\* sample_truncated_normal that ends returns a list of exactly n values, all
\* inside [lo, hi], which are the accepted draws in draw order.
C26_ReturnsNAcceptedDraws ==
    (SamplerDone /\ RLt(Zero, args.sd) /\ RLe(args.lo, args.hi)) =>
        ReturnsAcceptedDraws

\* the same for n >= 1
ReturnsAcceptedDrawsWhenAsked ==
    (SamplerDone /\ RLt(Zero, args.sd) /\ RLe(args.lo, args.hi) /\ args.n >= 1) =>
        ReturnsAcceptedDraws

\* while values are still missing, a batch with an accepted draw brings the
\* call nearer to its end
AcceptedBatchMakesProgress ==
    [][(pc = "sampler_loop" /\ remaining > 0 /\ pc' = "sampler_loop"
          /\ accepted_of(calls'[Len(calls')].samples, args.lo, args.hi) # <<>>)
       => remaining' < remaining]_vars

----------------------------------------------------------------------------
(* Claims about calculate_discounted_yll.                                  *)

\* 1 / (1 + r) ** t, by dividing t times
RECURSIVE DiscountFactor(_, _)
DiscountFactor(r, t) ==
    IF t = 0 THEN One ELSE RDiv(DiscountFactor(r, t - 1), RAdd(One, r))

ClaimedYll(r, years, f) ==
    LET factor(t) == DiscountFactor(r, t)
    IN  RAdd(SigmaR(factor, 0, years - 1), RMul(DiscountFactor(r, years), f))

\* C30: for a discount rate r > -1, an integer number of years >= 0 and a
\* final-year factor f, calculate_discounted_yll returns the sum over
\* t = 0..years-1 of (1/(1+r))^t plus (1/(1+r))^years * f; this is f for
\* years = 0 and years + f for r = 0.
C30_DiscountedYllFormula ==
    (pc = "yll_returned" /\ RLt(I(-1), args.discount_rate) /\ args.years >= 0) =>
        /\ result.status = "ok"
        /\ result.discounted_yll =
               ClaimedYll(args.discount_rate, args.years, args.final_year_factor)
        /\ args.years = 0 => result.discounted_yll = args.final_year_factor
        /\ args.discount_rate = Zero =>
               result.discounted_yll = RAdd(I(args.years), args.final_year_factor)

\* 1 + 4/5 + (16/25) * (1/2) = 53/25
C30_Witness ==
    /\ pc = "yll_returned"
    /\ args.discount_rate = Q(1, 4)
    /\ args.years = 2
    /\ args.final_year_factor = Q(1, 2)
    /\ result.discounted_yll = Q(53, 25)

----------------------------------------------------------------------------
(* Claims about the two perspectives in the three scripts.                 *)

\* the inputs a with both caregiver salary losses replaced by zeros
WithSalaryLossesZeroed(a) ==
    [a EXCEPT !.inpatient_caregiver_salary_losses = [i \in DOMAIN @ |-> Zero],
              !.outpatient_caregiver_salary_losses = [i \in DOMAIN @ |-> Zero]]

\* the inputs a with the transport costs replaced by zeros as well
WithIndirectCostsZeroed(a) ==
    [WithSalaryLossesZeroed(a) EXCEPT
        !.inpatient_transport_costs = [i \in DOMAIN @ |-> Zero],
        !.outpatient_transport_costs = [i \in DOMAIN @ |-> Zero]]

BaseCaseRunning ==
    pc \in {"base_case", "base_case_failed", "base_case_finished"}

UnivariateRunning == study # <<>> /\ pc \in {"run_univariate", "failed"}

PsaRunning == DEFAULT_RNG # Unset

\* the call at position k of the log is the public-payer evaluation of the
\* arm whose societal evaluation is at position j
PublicEvaluationOf(k, j) ==
    Len(calls) >= k => calls[k].args = WithSalaryLossesZeroed(calls[j].args)

\* C27: in main.py, psa.py and univariate.py alike, the inputs of a
\* public-payer evaluation are those of the societal evaluation of the same
\* arm with the inpatient and outpatient caregiver salary losses replaced by
\* zeros; the transport costs and all other inputs are kept.
C27_SamePublicPayerTransformation ==
    /\ BaseCaseRunning => PublicEvaluationOf(3, 1) /\ PublicEvaluationOf(4, 2)
    /\ PsaRunning => PublicEvaluationOf(3, 1) /\ PublicEvaluationOf(4, 2)
    /\ UnivariateRunning =>
           /\ PublicEvaluationOf(5, 1) /\ PublicEvaluationOf(6, 2)
           /\ PublicEvaluationOf(7, 3) /\ PublicEvaluationOf(8, 4)

\* main.py makes its public-payer evaluations as claimed
BaseCaseZeroesSalaryLossesOnly ==
    BaseCaseRunning => PublicEvaluationOf(3, 1) /\ PublicEvaluationOf(4, 2)

\* psa.py makes its public-payer evaluation of the vaccine as claimed
PsaVaccineZeroesSalaryLossesOnly == PsaRunning => PublicEvaluationOf(4, 2)

\* univariate.py zeroes the transport costs together with the salary losses
UnivariateZeroesIndirectCosts ==
    UnivariateRunning =>
        \A k \in 5..8 :
            Len(calls) >= k =>
                calls[k].args = WithIndirectCostsZeroed(calls[k - 4].args)

----------------------------------------------------------------------------
(* Claims about the sampled inputs of the PSA.                             *)

InUnit(x) == RLe(Zero, x) /\ RLe(x, One)

InsideUnit(x) == RLt(Zero, x) /\ RLt(x, One)

AllInUnit(xs) == \A i \in DOMAIN xs : InUnit(xs[i])

\* the sampled coverage, disability weights and effectiveness values of one
\* call are in their domains
SampledScalarsInDomains(k) ==
    LET a == calls[k].args
    IN  /\ InUnit(a.coverage)
        /\ k \in {1, 3} =>
               /\ RLe(data.nirsevimab_min_expected_coverage, a.coverage)
               /\ RLe(a.coverage, data.nirsevimab_max_expected_coverage)
        /\ InsideUnit(a.severe_case_dw)
        /\ InsideUnit(a.moderate_case_dw)
        /\ AllInUnit(a.hosp_reduction_effs)
        /\ AllInUnit(a.malrti_reduction_effs)

\* a sampled proportion as sample_lognormal computes it is in [0, 1]
SampledProportionInUnit ==
    pc = "proportion_drawn" =>
        /\ log_le(LogZero, result.value)
        /\ log_le(result.value, LogNum(1, Zero))

\* C28: every parameter vector a PSA iteration passes to run_scenario is in
\* the domains of the data model: the sampled nirsevimab coverage lies in
\* [min_expected_coverage, max_expected_coverage] and in [0, 1], the sampled
\* disability weights in (0, 1), the sampled effectiveness values in [0, 1]
\* and the sampled hospitalization and outpatient proportions in [0, 1].
C28_SampledInputsInDomains ==
    /\ \A k \in 1..Len(calls) :
           /\ SampledScalarsInDomains(k)
           /\ AllInUnit(calls[k].args.hosp_proportions)
           /\ AllInUnit(calls[k].args.outpatient_proportions)
    /\ SampledProportionInUnit

\* coverage, disability weights and effectiveness are in their domains
CoverageWeightsEffectivenessInDomains ==
    \A k \in 1..Len(calls) : SampledScalarsInDomains(k)

\* a sampled proportion is positive
SampledProportionPositive ==
    pc = "proportion_drawn" => result.value.sign = 1

====
